---- MODULE Spec2Model ----
(***************************************************************************)
(* Verification model of pible_go: the per-adapter BlueZ discovery loop    *)
(* with its connect worker pool (cmd/pible/main.go, package bluetooth),    *)
(* the hot-plug adapter supervisor, and the split of the connection limit  *)
(* across adapters.                                                        *)
(*                                                                         *)
(* Conventions.  A Go pointer that may be nil is a set with at most one    *)
(* element ({} is nil).  A Go map is a function whose DOMAIN is the set of *)
(* keys present.  Time is in whole seconds.                                *)
(***************************************************************************)
EXTENDS Integers, Sequences, FiniteSets, TLC

(***************************************************************************)
(* Bounds of the model.                                                    *)
(***************************************************************************)
\* Capacity of the connect queue and of the completion channel.  The code
\* uses 8192 for both (defaultBlueZConfig); the model scales it down so
\* that a full channel is reachable with the model's handful of MACs.
ConnectQueueSize == 1
\* Number of snapshot ticks one discovery loop run is followed for.
MaxTicks == 3

\* Largest max_connect_total and longest adapter list the split is run on.
MaxTotal == 7
MaxAdapters == 4

(***************************************************************************)
(* Program constants (defaultBlueZConfig), in seconds and dBm.             *)
(***************************************************************************)
SnapshotInterval == 3
ConnectCooldown == 1800
ConnectRSSIMin == -75
\* Sightings required before a connect (seenCount[mac] < 2 skips).  The
\* model's seenCount saturates at this value: the code reads the counter
\* only to compare it with 2 (and with 1, for a log line).
MinSightings == 2

\* runManagedAdapterLoop: first backoff, its cap, and the poll period while
\* the adapter is absent, in seconds.
BackoffStart == 1
BackoffCap == 8
AbsentPoll == 2

\* Device addresses seen by the adapter, already canonical (bluezSnapshot
\* upper-cases and trims the Address property and drops empty ones).
MACs == {"AA", "BB"}
\* A worker's mac variable while it holds no job.
NoMAC == ""
\* The connect workers of one discovery loop run (maxConnect of them).
Workers == {"w1"}
\* Time that may pass between two snapshot ticks: one ticker period, or a
\* pause as long as the connect cooldown.
TickSteps == {SnapshotInterval, ConnectCooldown}

\* Snapshot entries (bluezDevice), reduced to the fields connect scheduling
\* reads: Type, Class, LegacyPairing and RSSI.
RSSIs == {{}, {ConnectRSSIMin - 1}, {ConnectRSSIMin}}
BDs ==
    [Type : {{}}, Class : {{}, {7936}}, LegacyPairing : {{}, {TRUE}},
     RSSI : RSSIs]
    \cup
    [Type : {{"le"}, {"bredr"}, {"dual"}}, Class : {{}},
     LegacyPairing : {{}}, RSSI : RSSIs]
NoBD == [Type |-> {}, Class |-> {}, LegacyPairing |-> {}, RSSI |-> {}]

\* Adapter ids BlueZ may hand out and controller addresses; the supervisor
\* is configured with ConfiguredAdapter.
AdapterIDs == {"hci0", "hci1"}
ControllerAddrs == {"C1", "C2"}
ConfiguredAdapter == "hci0"

VARIABLES
    \* ---- runBlueZDiscoveryLoop ----
    lpc,              \* position of the loop
    ctxDone,          \* the loop's context (workerCtx) is cancelled
    startedByUs,      \* local startedByUs
    startErr,         \* outcome of the StartDiscovery call
    startCalls,       \* StartDiscovery calls issued by this run
    stopCalls,        \* StopDiscovery calls issued by this run
    queue,            \* chan string: connect jobs
    doneCh,           \* chan string: completed jobs
    inFlight,         \* map[string]bool, as the set of keys
    lastConnAttempt,  \* map[string]time.Time
    seenCount,        \* map[string]int
    now,              \* local now of the current tick
    clock,            \* wall clock
    ticks,            \* ticks taken so far
    todo,             \* snapshot keys not yet visited in this tick
    cur,              \* MAC of the entry being processed ({} between entries)
    bd,               \* the entry being processed
    hasGatt,          \* local hasGatt
    \* ---- bluezConnectWorker / ConnectAndDumpGATTBlueZ ----
    wpc,              \* position of each worker
    wmac,             \* MAC of the job in hand
    wdefer,           \* the deferred Disconnect is registered
    wdisc,            \* Disconnect was issued for the job in hand
    werr,             \* value returned by ConnectAndDumpGATTBlueZ
    \* ---- store ----
    gattServices,     \* MACs with a non-empty row in gatt_services
    \* ---- record of finished jobs ----
    lastJob,          \* per MAC, the result of its latest finished job
    wtrail,           \* history: per worker, the steps its job has passed
    \* ---- runManagedAdapterLoop ----
    spc,              \* position of the supervisor
    adapters,         \* object manager: adapter id -> Address ("" = no path)
    adapterID,        \* local adapterID
    knownAddr,        \* local knownAddr ("" = not captured)
    wasPresent,       \* local wasPresent
    present,          \* local present
    backoff,          \* local backoff
    probedID,         \* id the latest presence check asked for
    poweredID,        \* id the latest power-on was sent to
    runID,            \* id the latest discovery loop run was given
    connectedLog,     \* this iteration logged "adapter: <id> connected"
    lastWait,         \* duration of the latest timer wait (0 = none yet)
    mpc,              \* position of the monitor goroutine
    wctxCancelled,    \* cancel() of workerCtx was called
    dpc,              \* the discovery loop run: off, running, returned
    rootDone,         \* the root context is cancelled
    \* ---- StartContinuousScanAndConnectMulti: the split ----
    kpc,              \* position in StartContinuousScanAndConnectMulti
    maxConnectTotal,  \* parameter maxConnectTotal
    nAdapters,        \* len(adapterIDs)
    per,              \* local per
    rest,             \* local rest
    idx,              \* index i of the limits loop
    limits,           \* map[string]int
    \* ---- db.Store: tables and in-memory caches ----
    sclock,           \* wall clock seen by the store's callers
    sticks,           \* clock steps taken so far
    devices,          \* table devices, keyed by the stored mac
    advertisements,   \* table advertisements, in insertion order
    countedAt,        \* history: per MAC, when detection_count last rose
    gpsHistLast,      \* Store.gpsHistLast: map[string]string
    gpsHistLastAt,    \* Store.gpsHistLastAt: map[string]time.Time
    gpsHistory,       \* table device_gps_history, per MAC, in order
    gattCharacteristics, \* table gatt_characteristics, by primary key
    gattDescriptors,  \* table gatt_descriptors, by primary key
    lastUpsert,       \* history: the latest GATT upsert call
    \* ---- runBlueZDiscoveryLoop: the write half of an iteration ----
    xpc,              \* position inside the iteration
    xnow,             \* local now of the current tick
    xclock,           \* wall clock
    xticks,           \* ticks taken so far
    xtodo,            \* snapshot keys not yet visited in this tick
    lastDeviceWrite,  \* map[string]time.Time
    lastAdvWrite,     \* map[string]time.Time
    lastGPSVal,       \* map[string]string
    lastGPSWrite,     \* map[string]time.Time
    issued,           \* store calls issued for the latest sighting, in order
    sighted,          \* MAC of the latest sighting
    savedAt,          \* history: per MAC, now of its latest SaveDevice call
    lastMarked,       \* lastMarked
    lastClassicHist,  \* lastClassicHist
    entry,            \* bd of the last sighting
    familySkip,       \* devType == "classic" at the last sighting
    advID,            \* id returned by the last InsertAdvertisement
    linkedID,         \* id passed to the last UpdateDeviceLastAdvID
    storeErr,         \* the store calls of the last sighting failed
    \* ---- gps.State, its reader, watchdogLoop, WaitForFirstPacket ----
    gclock,           \* wall clock
    gticks,           \* clock steps taken so far
    useGPS,           \* State.useGPS
    latest,           \* State.latestLat, State.latestLon
    lastFix,          \* State.lastFix ({} = zero time)
    lastPacket,       \* State.lastPacket ({} = zero time)
    scanningStarted,  \* State.scanningStarted
    activeCloser,     \* State.activeCloser is not nil
    rpc,              \* position of the reader loop
    connOpen,         \* the reader's connection is open
    delivered,        \* history: packets the current reader delivered
    everDelivered,    \* history: some reader delivered a packet
    everFixed,        \* history: some packet carried a position fix
    lastKick,         \* watchdogLoop's local lastKick ({} = zero time)
    fpc,              \* position of WaitForFirstPacket
    deadline,         \* WaitForFirstPacket's local deadline
    fresult,          \* value WaitForFirstPacket returned
    gctxDone,         \* the context given to the GPS goroutines is done
    readerKind,       \* the reader State.Start started: "gpsd" or "serial"
    activeKind,       \* State.activeKind
    failedAt,         \* time the reader's 2 s wait began ({} = not waiting)
    sentence,         \* the last line readSerial scanned
    opc,              \* position of the loop's GPS reads for one sighting
    obsText,          \* gpsStr of the sighting
    obsSnap,          \* gLat, gLon, gOK, gCached of the sighting
    obsSource,        \* gpsSource of the sighting
    obsKind,          \* history: State.activeKind when gpsStr was read
    \* ---- LoadDeviceTypePatterns, DetectTypedDevice ----
    tpc,              \* position of LoadDeviceTypePatterns
    defaultFile,      \* types of default/device_types.yaml ({} = unreadable)
    customFile,       \* types of custom/device_types.yaml ({} = unreadable)
    patterns,         \* out.Types
    observed,         \* arguments of the latest DetectTypedDevice call
    detected,         \* its result
    \* ---- Store.mu and the callers of the store ----
    mu,               \* holder of Store.mu ({} = unlocked)
    cpc,              \* per caller, its position in the store method
    cop,              \* per caller, the method it is in and its GPS text
    cseen,            \* per caller, the value its SELECT returned
    ccalls,           \* per caller, store calls completed
    devRow,           \* detection_count of the one device row (0 = no row)
    advRows,          \* rows of advertisements
    histRows,         \* rows of device_gps_history
    histCache,        \* gpsHistLast of the MAC ({} = no entry)
    rowWrites,        \* history: successful writes of the device row
    \* ---- StartContinuousScanAndConnectMulti after the go statements ----
    multi,            \* its position
    multiErr,         \* the error it returned
    \* ---- several runManagedAdapterLoop goroutines on one object manager ----
    sup,              \* per supervisor, its locals, its monitor and its loop
    \* ---- DumpAndStoreGATT: the characteristics of one dump ----
    upc,              \* position of the dump
    cdone,            \* characteristics visited so far
    readCount,        \* readCount
    reads,            \* history: ReadValue calls made on characteristics
    lastChar,         \* history: the characteristic visited last
    \* ---- runManagedAdapterLoop restarting runBlueZDiscoveryLoop ----
    runs,             \* discovery loop runs the supervisor has started
    rctxDone,         \* per run: workerCtx is done
    rlpc,             \* per run: position of the loop
    rqueue,           \* per run: queue
    rdoneCh,          \* per run: doneCh
    rinFlight,        \* per run: inFlight
    rlastConnAttempt, \* per run: lastConnAttempt
    rseenCount,       \* per run: seenCount
    rwpc,             \* per run and worker: position of the worker
    rwmac,            \* per run and worker: the job's MAC
    rgatt,            \* MACs with a stored GATT listing
    rclock,           \* wall clock, in seconds
    rticks,           \* ticker periods elapsed (bounds the run)
    attemptedAt       \* history: time of the MAC's last enqueued job

loopVars ==
    <<lpc, ctxDone, startedByUs, startErr, startCalls, stopCalls, queue,
      doneCh, inFlight, lastConnAttempt, seenCount, now, clock, ticks, todo,
      cur, bd, hasGatt>>
workerVars == <<wpc, wmac, wdefer, wdisc, werr>>
storeVars == <<gattServices>>
jobVars == <<lastJob, wtrail>>
supVars ==
    <<spc, adapters, adapterID, knownAddr, wasPresent, present, backoff,
      probedID, poweredID, runID, connectedLog, lastWait, mpc,
      wctxCancelled, dpc, rootDone>>
splitVars == <<kpc, maxConnectTotal, nAdapters, per, rest, idx, limits>>
dbVars ==
    <<sclock, sticks, devices, advertisements, countedAt, gpsHistLast, gpsHistLastAt, gpsHistory, gattCharacteristics,
      gattDescriptors, lastUpsert>>
writeVars ==
    <<xpc, xnow, xclock, xticks, xtodo, lastDeviceWrite, lastAdvWrite,
      lastGPSVal, lastGPSWrite, issued, sighted, savedAt, lastMarked, lastClassicHist,
                   entry, familySkip, advID, linkedID, storeErr>>
gpsVars ==
    <<gclock, gticks, useGPS, latest, lastFix, lastPacket, scanningStarted,
      activeCloser, rpc, connOpen, delivered, everDelivered, everFixed,
      lastKick, fpc, deadline, fresult, gctxDone, readerKind, activeKind,
      failedAt, sentence, opc, obsText, obsSnap, obsSource, obsKind>>
typeVars == <<tpc, defaultFile, customFile, patterns, observed, detected>>
lockVars ==
    <<mu, cpc, cop, cseen, ccalls, devRow, advRows, histRows, histCache,
      rowWrites>>
stopVars == <<multi, multiErr>>
pairVars == <<sup>>
dumpVars == <<upc, cdone, readCount, reads, lastChar>>
runVars ==
    <<runs, rctxDone, rlpc, rqueue, rdoneCh, rinFlight, rlastConnAttempt,
      rseenCount, rwpc, rwmac, rgatt, rclock, rticks, attemptedAt>>
moreVars == <<stopVars, pairVars, dumpVars, runVars>>
extVars == <<typeVars, lockVars, moreVars>>
vars ==
    <<loopVars, workerVars, storeVars, jobVars, supVars, splitVars, dbVars,
      writeVars, gpsVars, extVars>>

(***************************************************************************)
(* Pure helpers of the discovery loop.                                     *)
(***************************************************************************)
\* strings.ToLower(strings.TrimSpace(*d.Type))
LowerTrimType(t) ==
    CASE t = "le" -> "le"
      [] t = "LE " -> "le"
      [] t = "bredr" -> "bredr"
      [] t = " BREDR" -> "bredr"
      [] t = "dual" -> "dual"
      [] t = "Dual" -> "dual"
      [] t = "unknown" -> "unknown"
      [] OTHER -> ""

\* The Type property of an entry as the code compares it: lower-cased and
\* trimmed, a nil Type compares with nothing.
TypeOf(d) == {LowerTrimType(t) : t \in d.Type}

isClassicLikely_NoLE(d) ==
    \/ TypeOf(d) = {"bredr"} \/ TypeOf(d) = {"dual"}
    \/ \E c \in d.Class : c # 0
    \/ \E l \in d.LegacyPairing : l

\* bluezDevice.isClassicLikely
isClassicLikely(d) ==
    IF TypeOf(d) = {"bredr"} \/ TypeOf(d) = {"dual"} THEN TRUE
    ELSE IF TypeOf(d) = {"le"} THEN FALSE
    ELSE IF \E c \in d.Class : c # 0 THEN TRUE
    ELSE IF \E l \in d.LegacyPairing : l THEN TRUE
    ELSE FALSE

\* bluezTypeToDeviceType
bluezTypeToDeviceType(d) ==
    IF TypeOf(d) = {"le"} THEN "ble"
    ELSE IF TypeOf(d) = {"bredr"} THEN "classic"
    ELSE IF TypeOf(d) = {"dual"} THEN "dual"
    ELSE IF isClassicLikely(d) THEN "classic"
    ELSE "ble"

\* bd.RSSI == nil || *bd.RSSI < cfg.ConnectRSSIMin
RSSITooLow(d) == d.RSSI = {} \/ \E r \in d.RSSI : r < ConnectRSSIMin

\* Mutant: the cooldown comparison inverted.
InCooldown_Inverted(m, t) ==
    m \in DOMAIN lastConnAttempt /\ t - lastConnAttempt[m] > ConnectCooldown

\* Mutant: the cooldown still holds at exactly ConnectCooldown.
InCooldown_Inclusive(m, t) ==
    m \in DOMAIN lastConnAttempt /\ t - lastConnAttempt[m] <= ConnectCooldown

\* last, ok := lastConnAttempt[mac]; ok && now.Sub(last) < cfg.ConnectCooldown
InCooldown(m, t) ==
    m \in DOMAIN lastConnAttempt /\ t - lastConnAttempt[m] < ConnectCooldown

\* seenCount[mac] with Go's zero value for a missing key
SeenOf(m) == IF m \in DOMAIN seenCount THEN seenCount[m] ELSE 0

\* m[k] = v on a Go map
MapSet(f, k, v) == [x \in DOMAIN f \cup {k} |-> IF x = k THEN v ELSE f[x]]

Min(a, b) == IF a < b THEN a ELSE b

\* The element of a one-element set.
TheOne(S) == CHOOSE x \in S : TRUE

(***************************************************************************)
(* runBlueZDiscoveryLoop.                                                  *)
(***************************************************************************)
\* Mutant: the deferred function stops discovery without looking at
\* startedByUs.
LoopReturn_AlwaysStop ==
    /\ lpc' = "exited"
    /\ stopCalls' = stopCalls + 1
    /\ todo' = {}
    /\ cur' = {}
    /\ bd' = NoBD
    /\ hasGatt' = FALSE

\* Every return after the deferred StopDiscovery is registered: the defer
\* calls StopDiscovery only when startedByUs.
LoopReturn ==
    /\ lpc' = "exited"
    /\ stopCalls' = IF startedByUs THEN stopCalls + 1 ELSE stopCalls
    /\ todo' = {}
    /\ cur' = {}
    /\ bd' = NoBD
    /\ hasGatt' = FALSE

\* What follows one snapshot entry: the next entry, or the ticker again.
NextEntry(left) ==
    /\ todo' = left
    /\ lpc' = IF left = {} THEN "wait" ELSE "iter"

\* dbus.SystemBus(): an error returns before anything is started.
LoopConnect ==
    /\ lpc = "init"
    /\ \E ok \in BOOLEAN : lpc' = IF ok THEN "start" ELSE "nobus"
    /\ UNCHANGED <<ctxDone, startedByUs, startErr, startCalls, stopCalls,
                   queue, doneCh, inFlight, lastConnAttempt, seenCount, now,
                   clock, ticks, todo, cur, bd, hasGatt>>
    /\ UNCHANGED <<workerVars, storeVars, jobVars, supVars, splitVars,
                   dbVars, writeVars, gpsVars, extVars>>

AfterStart_Fatal(r) == IF r = "other" THEN "exited" ELSE "wait"

\* No branch of the StartDiscovery error handling returns: whatever the
\* call reports, the loop goes on to its workers and its ticker.
AfterStart(r) == "wait"

\* SetDiscoveryFilter (result ignored), then the one StartDiscovery call.
\* The call succeeds, reports InProgress, or fails otherwise; only success
\* sets startedByUs.  The workers and the ticker are created next.
LoopStartDiscovery ==
    /\ lpc = "start"
    /\ \E r \in {"nil", "InProgress", "other"} :
          /\ startErr' = r
          /\ startedByUs' = (r = "nil")
          /\ lpc' = AfterStart(r)
    /\ startCalls' = startCalls + 1
    /\ UNCHANGED <<ctxDone, stopCalls, queue, doneCh, inFlight,
                   lastConnAttempt, seenCount, now, clock, ticks, todo, cur,
                   bd, hasGatt>>
    /\ UNCHANGED <<workerVars, storeVars, jobVars, supVars, splitVars,
                   dbVars, writeVars, gpsVars, extVars>>

\* select { case <-ctx.Done(): return ctx.Err() ... }
LoopCtxDone ==
    /\ lpc = "wait"
    /\ ctxDone
    /\ LoopReturn
    /\ UNCHANGED <<ctxDone, startedByUs, startErr, startCalls, queue, doneCh,
                   inFlight, lastConnAttempt, seenCount, now, clock, ticks>>
    /\ UNCHANGED <<workerVars, storeVars, jobVars, supVars, splitVars,
                   dbVars, writeVars, gpsVars, extVars>>

\* select { ... case <-ticker.C: }: the ticker fires after at least one
\* period; Go may take this case also when the context is already done.
LoopTick ==
    /\ lpc = "wait"
    /\ ticks < MaxTicks
    /\ \E d \in TickSteps : clock' = clock + d
    /\ ticks' = ticks + 1
    /\ lpc' = "drain"
    /\ UNCHANGED <<ctxDone, startedByUs, startErr, startCalls, stopCalls,
                   queue, doneCh, inFlight, lastConnAttempt, seenCount, now,
                   todo, cur, bd, hasGatt>>
    /\ UNCHANGED <<workerVars, storeVars, jobVars, supVars, splitVars,
                   dbVars, writeVars, gpsVars, extVars>>

\* Drain completed connect jobs: one non-blocking receive per step.
LoopDrain ==
    /\ lpc = "drain"
    /\ IF doneCh # <<>>
          THEN /\ inFlight' = inFlight \ {Head(doneCh)}
               /\ doneCh' = Tail(doneCh)
               /\ lpc' = "drain"
          ELSE /\ lpc' = "snap"
               /\ UNCHANGED <<inFlight, doneCh>>
    /\ UNCHANGED <<ctxDone, startedByUs, startErr, startCalls, stopCalls,
                   queue, lastConnAttempt, seenCount, now, clock, ticks,
                   todo, cur, bd, hasGatt>>
    /\ UNCHANGED <<workerVars, storeVars, jobVars, supVars, splitVars,
                   dbVars, writeVars, gpsVars, extVars>>

\* bluezSnapshotWithConn: an error or an empty snapshot goes back to the
\* ticker; otherwise now := time.Now() and the entries are visited in any
\* order (Go map iteration).
LoopSnapshot ==
    /\ lpc = "snap"
    /\ \E snap \in SUBSET MACs, err \in BOOLEAN :
          IF err \/ snap = {}
             THEN /\ lpc' = "wait"
                  /\ UNCHANGED <<now, todo>>
             ELSE /\ now' = clock
                  /\ todo' = snap
                  /\ lpc' = "iter"
    /\ UNCHANGED <<ctxDone, startedByUs, startErr, startCalls, stopCalls,
                   queue, doneCh, inFlight, lastConnAttempt, seenCount,
                   clock, ticks, cur, bd, hasGatt>>
    /\ UNCHANGED <<workerVars, storeVars, jobVars, supVars, splitVars,
                   dbVars, writeVars, gpsVars, extVars>>

\* Top of the per-entry body: select { case <-ctx.Done(): return ... }
LoopEntryCtxDone ==
    /\ lpc = "iter"
    /\ ctxDone
    /\ LoopReturn
    /\ UNCHANGED <<ctxDone, startedByUs, startErr, startCalls, queue, doneCh,
                   inFlight, lastConnAttempt, seenCount, now, clock, ticks>>
    /\ UNCHANGED <<workerVars, storeVars, jobVars, supVars, splitVars,
                   dbVars, writeVars, gpsVars, extVars>>

\* store.HasGattServices: a failed query returns (false, err) and the
\* error is dropped.
HasGattServices(m, ok) == ok /\ m \in gattServices

\* One snapshot entry, from seenCount[mac]++ to the HasGattServices read:
\* the entry's properties are those of the snapshot, the family, RSSI and
\* sighting gates `continue` to the next entry.
LoopObserve(m, d) ==
    /\ lpc = "iter"
    /\ ~ctxDone
    /\ m \in todo
    /\ seenCount' = MapSet(seenCount, m, Min(SeenOf(m) + 1, MinSightings))
    /\ IF \/ bluezTypeToDeviceType(d) = "classic"
          \/ RSSITooLow(d)
          \/ seenCount'[m] < MinSightings
          THEN /\ NextEntry(todo \ {m})
               /\ UNCHANGED <<cur, bd, hasGatt>>
          ELSE /\ \E ok \in BOOLEAN : hasGatt' = HasGattServices(m, ok)
               /\ cur' = {m}
               /\ bd' = d
               /\ lpc' = "sched"
               /\ todo' = todo \ {m}
    /\ UNCHANGED <<ctxDone, startedByUs, startErr, startCalls, stopCalls,
                   queue, doneCh, inFlight, lastConnAttempt, now, clock,
                   ticks>>
    /\ UNCHANGED <<workerVars, storeVars, jobVars, supVars, splitVars,
                   dbVars, writeVars, gpsVars, extVars>>

\* The rest of connect scheduling: hasGatt, inFlight and cooldown gates,
\* then mark, timestamp and the non-blocking send; a full queue unmarks.
LoopSchedule ==
    /\ lpc = "sched"
    /\ LET m == TheOne(cur) IN
          IF hasGatt \/ m \in inFlight \/ InCooldown(m, now)
             THEN UNCHANGED <<lastConnAttempt, inFlight, queue>>
             ELSE /\ lastConnAttempt' = MapSet(lastConnAttempt, m, now)
                  /\ IF Len(queue) < ConnectQueueSize
                        THEN /\ queue' = Append(queue, m)
                             /\ inFlight' = inFlight \cup {m}
                        ELSE /\ queue' = queue
                             /\ inFlight' = (inFlight \cup {m}) \ {m}
    /\ NextEntry(todo)
    /\ cur' = {}
    /\ bd' = NoBD
    /\ hasGatt' = FALSE
    /\ UNCHANGED <<ctxDone, startedByUs, startErr, startCalls, stopCalls,
                   doneCh, seenCount, now, clock, ticks>>
    /\ UNCHANGED <<workerVars, storeVars, jobVars, supVars, splitVars,
                   dbVars, writeVars, gpsVars, extVars>>

\* The loop's context is cancelled from outside: by the supervisor's
\* monitor when the adapter disappears, or by root cancellation.
CancelCtx ==
    /\ ~ctxDone
    /\ lpc # "init"
    /\ ctxDone' = TRUE
    /\ UNCHANGED <<lpc, startedByUs, startErr, startCalls, stopCalls, queue,
                   doneCh, inFlight, lastConnAttempt, seenCount, now, clock,
                   ticks, todo, cur, bd, hasGatt>>
    /\ UNCHANGED <<workerVars, storeVars, jobVars, supVars, splitVars,
                   dbVars, writeVars, gpsVars, extVars>>

(***************************************************************************)
(* bluezConnectWorker and ConnectAndDumpGATTBlueZ.                         *)
(***************************************************************************)
\* A return of ConnectAndDumpGATTBlueZ with result e: the deferred
\* Disconnect runs if it was registered; the worker then holds err.
JobReturn(w, e) ==
    /\ wdisc' = [wdisc EXCEPT ![w] = IF wdefer[w] THEN TRUE ELSE @]
    /\ wdefer' = [wdefer EXCEPT ![w] = FALSE]
    /\ werr' = [werr EXCEPT ![w] = e]
    /\ wpc' = [wpc EXCEPT ![w] = "publish"]
    /\ lastJob' = [lastJob EXCEPT
                       ![wmac[w]] = IF e = "nil" THEN "nil" ELSE "error"]
    /\ UNCHANGED <<wmac, wtrail>>

\* select { case mac := <-queue: ... }
WorkerTake(w) ==
    /\ wpc[w] = "idle"
    /\ queue # <<>>
    /\ wmac' = [wmac EXCEPT ![w] = Head(queue)]
    /\ queue' = Tail(queue)
    /\ wpc' = [wpc EXCEPT ![w] = "connect"]
    /\ UNCHANGED <<wdefer, wdisc, werr>>
    /\ UNCHANGED <<lpc, ctxDone, startedByUs, startErr, startCalls,
                   stopCalls, doneCh, inFlight, lastConnAttempt, seenCount,
                   now, clock, ticks, todo, cur, bd, hasGatt>>
    /\ UNCHANGED <<storeVars, jobVars, supVars, splitVars,
                   dbVars, writeVars, gpsVars, extVars>>

\* Mutant: the worker's select has no ctx.Done() case.
WorkerCtxDone_Never(w) == FALSE

\* select { case <-ctx.Done(): return ... }
WorkerCtxDone(w) ==
    /\ wpc[w] = "idle"
    /\ ctxDone
    /\ wpc' = [wpc EXCEPT ![w] = "exited"]
    /\ UNCHANGED <<wmac, wdefer, wdisc, werr>>
    /\ UNCHANGED <<loopVars, storeVars, jobVars, supVars, splitVars,
                   dbVars, writeVars, gpsVars, extVars>>

\* Device1.Connect; an error returns before the Disconnect is deferred.
JobConnect(w) ==
    /\ wpc[w] = "connect"
    /\ \E ok \in BOOLEAN :
          IF ok
             THEN /\ wdefer' = [wdefer EXCEPT ![w] = TRUE]
                  /\ wpc' = [wpc EXCEPT ![w] = "resolve"]
                  /\ wtrail' = [wtrail EXCEPT ![w] = Append(@, "connected")]
                  /\ UNCHANGED <<wmac, wdisc, werr, lastJob>>
             ELSE JobReturn(w, "connect")
    /\ UNCHANGED <<loopVars, storeVars, supVars, splitVars,
                   dbVars, writeVars, gpsVars, extVars>>

\* The ServicesResolved poll: the job context ends (60 s deadline or
\* cancellation), the property turns true, or the 10 s budget runs out.
JobResolve(w) ==
    /\ wpc[w] = "resolve"
    /\ \E r \in {"ctx", "resolved", "not resolved"} :
          IF r = "resolved"
             THEN /\ wpc' = [wpc EXCEPT ![w] = "dump"]
                  /\ wtrail' = [wtrail EXCEPT ![w] = Append(@, "resolved")]
                  /\ UNCHANGED <<wmac, wdefer, wdisc, werr, lastJob>>
             ELSE JobReturn(w, r)
    /\ UNCHANGED <<loopVars, storeVars, supVars, splitVars,
                   dbVars, writeVars, gpsVars, extVars>>

\* What DumpAndStoreGATT finds: GetManagedObjects fails, the device has
\* no GATT service, or it has services.
DumpResults == {"error", "no services", "services"}

DumpFails_OnlyRPC(r) == r = "error"

\* DumpAndStoreGATT returns an error: the RPC error, or "no GATT services".
DumpFails(r) == r # "services"

\* DumpAndStoreGATT: an error (no GATT services, RPC failure) returns.
JobDump(w) ==
    /\ wpc[w] = "dump"
    /\ \E r \in DumpResults :
          IF ~DumpFails(r)
             THEN /\ wpc' = [wpc EXCEPT ![w] = "persist"]
                  /\ wtrail' = [wtrail EXCEPT ![w] = Append(@, r)]
                  /\ UNCHANGED <<wmac, wdefer, wdisc, werr, lastJob>>
             ELSE JobReturn(w, "dump")
    /\ UNCHANGED <<loopVars, storeVars, supVars, splitVars,
                   dbVars, writeVars, gpsVars, extVars>>

\* store.UpdateGattServices: the listing of a successful dump is never
\* empty; a failed write changes nothing and its error is dropped.
UpdateGattServices(m, ok) == IF ok THEN gattServices \cup {m} ELSE gattServices

\* UpdateGattServices, InsertGattServicesHistory, SaveDevice; return nil.
JobPersist(w) ==
    /\ wpc[w] = "persist"
    /\ \E ok \in BOOLEAN : gattServices' = UpdateGattServices(wmac[w], ok)
    /\ JobReturn(w, "nil")
    /\ UNCHANGED <<loopVars, supVars, splitVars,
                   dbVars, writeVars, gpsVars, extVars>>

\* select { case doneCh <- mac: default: }
WorkerPublish(w) ==
    /\ wpc[w] = "publish"
    /\ doneCh' = IF Len(doneCh) < ConnectQueueSize
                    THEN Append(doneCh, wmac[w])
                    ELSE doneCh
    /\ wpc' = [wpc EXCEPT ![w] = "idle"]
    /\ wmac' = [wmac EXCEPT ![w] = NoMAC]
    /\ wdisc' = [wdisc EXCEPT ![w] = FALSE]
    /\ werr' = [werr EXCEPT ![w] = "none"]
    /\ wtrail' = [wtrail EXCEPT ![w] = <<>>]
    /\ UNCHANGED <<wdefer, lastJob>>
    /\ UNCHANGED <<lpc, ctxDone, startedByUs, startErr, startCalls,
                   stopCalls, queue, inFlight, lastConnAttempt, seenCount,
                   now, clock, ticks, todo, cur, bd, hasGatt>>
    /\ UNCHANGED <<storeVars, supVars, splitVars,
                   dbVars, writeVars, gpsVars, extVars>>

(***************************************************************************)
(* Idle values of the variables a specification does not use.              *)
(***************************************************************************)
LoopIdle ==
    /\ lpc = "exited" /\ ctxDone = TRUE /\ startedByUs = FALSE
    /\ startErr = "none" /\ startCalls = 0 /\ stopCalls = 0
    /\ queue = <<>> /\ doneCh = <<>> /\ inFlight = {}
    /\ lastConnAttempt = <<>> /\ seenCount = <<>> /\ now = 0 /\ clock = 0
    /\ ticks = 0 /\ todo = {} /\ cur = {} /\ bd = NoBD /\ hasGatt = FALSE
    /\ wpc = [w \in Workers |-> "exited"]
    /\ wmac = [w \in Workers |-> NoMAC]
    /\ wdefer = [w \in Workers |-> FALSE]
    /\ wdisc = [w \in Workers |-> FALSE]
    /\ werr = [w \in Workers |-> "none"]
    /\ gattServices = {}
    /\ lastJob = [m \in MACs |-> "none"]
    /\ wtrail = [w \in Workers |-> <<>>]

SupIdle ==
    /\ spc = "off" /\ adapters = <<>> /\ adapterID = "" /\ knownAddr = ""
    /\ wasPresent = FALSE /\ present = FALSE /\ backoff = 1
    /\ probedID = "" /\ poweredID = "" /\ runID = ""
    /\ connectedLog = FALSE /\ lastWait = 0 /\ mpc = "off"
    /\ wctxCancelled = FALSE /\ dpc = "off" /\ rootDone = FALSE

SplitIdle ==
    /\ kpc = "off" /\ maxConnectTotal = 0 /\ nAdapters = 0 /\ per = 0
    /\ rest = 0 /\ idx = 0 /\ limits = <<>>

DbIdle ==
    /\ sclock = 0 /\ sticks = 0 /\ devices = <<>> /\ advertisements = <<>>
    /\ countedAt = <<>> /\ gpsHistLast = <<>>
    /\ gpsHistLastAt = <<>> /\ gpsHistory = <<>>
    /\ gattCharacteristics = <<>> /\ gattDescriptors = <<>>
    /\ lastUpsert = <<>>

WriteIdle ==
    /\ xpc = "off" /\ xnow = 0 /\ xclock = 0 /\ xticks = 0 /\ xtodo = {}
    /\ lastDeviceWrite = <<>> /\ lastAdvWrite = <<>> /\ lastGPSVal = <<>>
    /\ lastGPSWrite = <<>> /\ issued = <<>> /\ sighted = NoMAC
    /\ savedAt = <<>> /\ lastMarked = <<>>
    /\ lastClassicHist = <<>> /\ entry = NoBD /\ familySkip = FALSE
    /\ advID = 0 /\ linkedID = 0 /\ storeErr = FALSE

NoSentence == [type |-> "", flag |-> "", lat |-> 0, lon |-> 0]
NoSnap == [pos |-> {}, ok |-> FALSE, cached |-> FALSE]

ObsIdle ==
    /\ opc = "idle" /\ obsText = {} /\ obsSnap = NoSnap
    /\ obsSource = "" /\ obsKind = ""

GpsIdle ==
    /\ gclock = 0 /\ gticks = 0 /\ useGPS = FALSE /\ latest = {}
    /\ lastFix = {} /\ lastPacket = {} /\ scanningStarted = FALSE
    /\ activeCloser = FALSE /\ rpc = "off" /\ connOpen = FALSE
    /\ delivered = 0 /\ everDelivered = FALSE /\ everFixed = FALSE
    /\ lastKick = {} /\ fpc = "off" /\ deadline = 0 /\ fresult = "none"
    /\ gctxDone = TRUE
    /\ readerKind = "" /\ activeKind = "" /\ failedAt = {}
    /\ sentence = NoSentence /\ ObsIdle

TypeIdle ==
    /\ tpc = "off" /\ defaultFile = {} /\ customFile = {}
    /\ patterns = <<>> /\ observed = <<>> /\ detected = "none"

LockIdle ==
    /\ mu = {} /\ cpc = <<>> /\ cop = <<>> /\ cseen = <<>> /\ ccalls = <<>>
    /\ devRow = 0 /\ advRows = 0 /\ histRows = 0 /\ histCache = {}
    /\ rowWrites = 0

\* Blocked in <-ctx.Done(), which no step ends while the root context lives.
StopIdle == multi = "ctxwait" /\ multiErr = "none"

PairIdle == sup = <<>>

DumpIdle ==
    /\ upc = "off" /\ cdone = 0 /\ readCount = 0 /\ reads = 0
    /\ lastChar = <<>>

RunIdle ==
    /\ runs = 0 /\ rctxDone = <<>> /\ rlpc = <<>> /\ rqueue = <<>>
    /\ rdoneCh = <<>> /\ rinFlight = <<>> /\ rlastConnAttempt = <<>>
    /\ rseenCount = <<>> /\ rwpc = <<>> /\ rwmac = <<>> /\ rgatt = {}
    /\ rclock = 0 /\ rticks = 0 /\ attemptedAt = <<>>

MoreIdle == StopIdle /\ PairIdle /\ DumpIdle /\ RunIdle

ExtIdle == TypeIdle /\ LockIdle /\ MoreIdle

(***************************************************************************)
(* Spec: one run of the discovery loop with its workers.                   *)
(***************************************************************************)
Init ==
    /\ lpc = "init" /\ ctxDone = FALSE /\ startedByUs = FALSE
    /\ startErr = "none" /\ startCalls = 0 /\ stopCalls = 0
    /\ queue = <<>> /\ doneCh = <<>> /\ inFlight = {}
    /\ lastConnAttempt = <<>> /\ seenCount = <<>> /\ now = 0 /\ clock = 0
    /\ ticks = 0 /\ todo = {} /\ cur = {} /\ bd = NoBD /\ hasGatt = FALSE
    /\ wpc = [w \in Workers |-> "idle"]
    /\ wmac = [w \in Workers |-> NoMAC]
    /\ wdefer = [w \in Workers |-> FALSE]
    /\ wdisc = [w \in Workers |-> FALSE]
    /\ werr = [w \in Workers |-> "none"]
    /\ gattServices = {}
    /\ lastJob = [m \in MACs |-> "none"]
    /\ wtrail = [w \in Workers |-> <<>>]
    /\ SupIdle
    /\ SplitIdle
    /\ DbIdle
    /\ WriteIdle
    /\ GpsIdle /\ ExtIdle

Next ==
    \/ LoopConnect
    \/ LoopStartDiscovery
    \/ LoopCtxDone
    \/ LoopTick
    \/ LoopDrain
    \/ LoopSnapshot
    \/ LoopEntryCtxDone
    \/ \E m \in MACs, d \in BDs : LoopObserve(m, d)
    \/ LoopSchedule
    \/ CancelCtx
    \/ \E w \in Workers : WorkerTake(w)
    \/ \E w \in Workers : WorkerCtxDone(w)
    \/ \E w \in Workers : JobConnect(w)
    \/ \E w \in Workers : JobResolve(w)
    \/ \E w \in Workers : JobDump(w)
    \/ \E w \in Workers : JobPersist(w)
    \/ \E w \in Workers : WorkerPublish(w)

Spec == Init /\ [][Next]_vars

(***************************************************************************)
(* Properties of the discovery loop and its workers (checked under Spec).  *)
(***************************************************************************)
InSeq(m, q) == \E i \in 1..Len(q) : q[i] = m

\* The step is the loop's scheduling step (workers never move lpc).
SchedStep == lpc = "sched" /\ lpc' # "sched"

\* The gates of connect scheduling for the entry in hand, written out.
GatesOpen(m) ==
    /\ bluezTypeToDeviceType(bd) # "classic"
    /\ bd.RSSI # {}
    /\ \A r \in bd.RSSI : r >= ConnectRSSIMin
    /\ SeenOf(m) >= 2
    /\ ~hasGatt
    /\ m \notin inFlight
    /\ (m \in DOMAIN lastConnAttempt
           => now - lastConnAttempt[m] >= ConnectCooldown)

\* C1: the connect queue grows only by the loop's scheduling step, and only
\* by the MAC of the entry in hand when the family is not classic, RSSI is
\* present and >= -75, seen_count >= 2, has_gatt_services returned false,
\* the MAC is not in flight and no attempt was timestamped for it in the
\* last 30 minutes.
C1_EnqueueOnlyWhenGated ==
    [][Len(queue') > Len(queue)
          => /\ SchedStep
             /\ \E m \in cur : queue' = Append(queue, m) /\ GatesOpen(m)]_vars

\* C1 witness: a job was just enqueued at this tick for a MAC seen twice.
C1_Witness ==
    \E m \in MACs :
       /\ InSeq(m, queue)
       /\ m \in inFlight
       /\ m \in DOMAIN lastConnAttempt
       /\ lastConnAttempt[m] = now
       /\ SeenOf(m) >= 2

\* A worker has the job for m in hand (taken, not yet published).
JobRunning(m) ==
    \E w \in Workers :
       wmac[w] = m /\ wpc[w] \in {"connect", "resolve", "dump", "persist", "publish"}

\* C2: no completion is lost: a MAC marked in flight always has its job
\* queued or in a worker's hands, or its completion waiting in the
\* completion channel, so that a following drain unmarks it.
C2_NoCompletionLost ==
    \A m \in inFlight : InSeq(m, queue) \/ JobRunning(m) \/ InSeq(m, doneCh)

\* C3 (as claimed): no MAC whose job failed is enqueued before 30 minutes
\* have passed since its attempt timestamp, and once they have passed and
\* the other gates are open, the scheduling step enqueues it.
C3_ReenqueuedAfterCooldown ==
    [][\A m \in cur :
          (SchedStep /\ lastJob[m] = "error" /\ m \in DOMAIN lastConnAttempt)
          => /\ queue' = Append(queue, m)
                => now - lastConnAttempt[m] >= ConnectCooldown
             /\ GatesOpen(m) => queue' = Append(queue, m)]_vars

\* C3 (amended): as above, but the enqueue after the cooldown is only
\* promised when the connect queue has room.
C3_ReenqueuedAfterCooldownIfRoom ==
    [][\A m \in cur :
          (SchedStep /\ lastJob[m] = "error" /\ m \in DOMAIN lastConnAttempt)
          => /\ queue' = Append(queue, m)
                => now - lastConnAttempt[m] >= ConnectCooldown
             /\ (GatesOpen(m) /\ Len(queue) < ConnectQueueSize)
                => queue' = Append(queue, m)]_vars

\* C3 witness: a MAC whose latest job failed is queued again, timestamped
\* at the current tick.
C3_Witness ==
    \E m \in MACs :
       /\ lastJob[m] = "error"
       /\ InSeq(m, queue)
       /\ lastConnAttempt[m] = now

\* C4: when all gates are open but the queue is full, the scheduling step
\* queues nothing, leaves the MAC not in flight, and skips it for this
\* round only: one snapshot interval later the loop's bookkeeping does not
\* hold the MAC back.
C4_FullQueueSkipsThisRoundOnly ==
    [][\A m \in cur :
          (SchedStep /\ GatesOpen(m) /\ Len(queue) >= ConnectQueueSize)
          => /\ queue' = queue
             /\ m \notin inFlight'
             /\ (m \in DOMAIN lastConnAttempt'
                    => (now + SnapshotInterval) - lastConnAttempt'[m]
                          >= ConnectCooldown)]_vars

\* C5: a job that has ended (the worker is about to publish it) has issued
\* Disconnect, whatever the exit path.
C5_DisconnectOnEveryExit ==
    \A w \in Workers : wpc[w] = "publish" => wdisc[w]

\* C6: StartDiscovery is called once per run (never twice, and once the
\* loop is past start-up exactly once); StopDiscovery is called only on
\* exit, and then exactly when the StartDiscovery call succeeded; an
\* in-progress report never leads to StopDiscovery.
C6_StartOnceStopIffStarted ==
    /\ startCalls <= 1
    /\ lpc \in {"wait", "drain", "snap", "iter", "sched", "exited"}
          => startCalls = 1
    /\ lpc # "exited" => stopCalls = 0
    /\ lpc = "exited" => (stopCalls = 1 <=> startErr = "nil")
    /\ stopCalls <= 1
    /\ startErr = "InProgress" => stopCalls = 0

\* C6 witness: a run that started discovery itself, ticked and exited has
\* stopped it.
C6_Witness ==
    lpc = "exited" /\ startErr = "nil" /\ stopCalls = 1 /\ ticks > 0

(***************************************************************************)
(* runManagedAdapterLoop: the hot-plug supervisor of one adapter, with its *)
(* monitor goroutine.  The discovery loop it launches is reduced to its    *)
(* start and its return.  Every object-manager call may fail (ok = FALSE). *)
(***************************************************************************)
\* bluezAdapterExists: false on a failed call or a missing path.
bluezAdapterExists(id, ok) == ok /\ adapters[id] # ""

\* bluezAdapterAddress: "" on a failed call or a missing path.
bluezAdapterAddress(id, ok) == IF ok THEN adapters[id] ELSE ""

\* bluezFindAdapterByAddress: the possible results; "" on a failed call, an
\* empty address or no match, else the id of a path with that Address.
bluezFindAdapterByAddress(addr, ok) ==
    LET hits == {id \in AdapterIDs : adapters[id] = addr} IN
       IF ~ok \/ addr = "" \/ hits = {} THEN {""} ELSE hits

\* Mutant: the address is captured again at every reconnect.
CaptureAddress_Always(known, a) == IF a # "" THEN a ELSE known

\* if knownAddr == "" { if a := bluezAdapterAddress(...); a != "" { ... } }
\* (also the capture before the loop, where knownAddr is "").
CaptureAddress(known, a) == IF known = "" /\ a # "" THEN a ELSE known

\* Mutant: the backoff is not reset when the adapter comes back.
BackoffOnTransition_NoReset(p, wp, b) == b

\* if present != wasPresent { if present { ...; backoff = 1 * time.Second } }
BackoffOnTransition(p, wp, b) == IF p # wp /\ p THEN BackoffStart ELSE b

\* Mutant: the cap test lets a backoff of 8 s double once more.
NextBackoff_Inclusive(b) == IF b <= BackoffCap THEN b * 2 ELSE b

\* if backoff < 8*time.Second { backoff *= 2 }
NextBackoff(b) == IF b < BackoffCap THEN b * 2 ELSE b

\* Mutant: cancel() of the child context is not seen by its holders.
WorkerCtxIsDone_RootOnly == rootDone

\* workerCtx is a child of ctx: done once cancelled or once the root is.
WorkerCtxIsDone == wctxCancelled \/ rootDone

\* dbus.SystemBus() (an error returns), then the first address capture.
SupInit ==
    /\ spc = "init"
    /\ \E bus \in BOOLEAN, ok \in BOOLEAN :
          IF bus
             THEN /\ knownAddr' =
                        CaptureAddress(knownAddr, bluezAdapterAddress(adapterID, ok))
                  /\ spc' = "top"
             ELSE /\ spc' = "exited"
                  /\ UNCHANGED knownAddr
    /\ UNCHANGED <<adapters, adapterID, wasPresent, present, backoff,
                   probedID, poweredID, runID, connectedLog, lastWait, mpc,
                   wctxCancelled, dpc, rootDone>>
    /\ UNCHANGED <<loopVars, workerVars, storeVars, jobVars, splitVars,
                   dbVars, writeVars, gpsVars, extVars>>

\* Top of the loop: select { case <-ctx.Done(): return; default: }
SupTop ==
    /\ spc = "top"
    /\ spc' = IF rootDone THEN "exited" ELSE "probe"
    /\ UNCHANGED <<adapters, adapterID, knownAddr, wasPresent, present,
                   backoff, probedID, poweredID, runID, connectedLog,
                   lastWait, mpc, wctxCancelled, dpc, rootDone>>
    /\ UNCHANGED <<loopVars, workerVars, storeVars, jobVars, splitVars,
                   dbVars, writeVars, gpsVars, extVars>>

\* present := bluezAdapterExists(ctx, conn, adapterID)
SupProbe ==
    /\ spc = "probe"
    /\ \E ok \in BOOLEAN : present' = bluezAdapterExists(adapterID, ok)
    /\ probedID' = adapterID
    /\ connectedLog' = FALSE
    /\ spc' = IF ~present' /\ knownAddr # "" THEN "find" ELSE "trans"
    /\ UNCHANGED <<adapters, adapterID, knownAddr, wasPresent, backoff,
                   poweredID, runID, lastWait, mpc, wctxCancelled, dpc,
                   rootDone>>
    /\ UNCHANGED <<loopVars, workerVars, storeVars, jobVars, splitVars,
                   dbVars, writeVars, gpsVars, extVars>>

\* Try to rebind by controller address.
SupFind ==
    /\ spc = "find"
    /\ \E ok \in BOOLEAN :
       \E newID \in bluezFindAdapterByAddress(knownAddr, ok) :
          IF newID # "" /\ newID # adapterID
             THEN /\ adapterID' = newID
                  /\ spc' = "recheck"
             ELSE /\ spc' = "trans"
                  /\ UNCHANGED adapterID
    /\ UNCHANGED <<adapters, knownAddr, wasPresent, present, backoff,
                   probedID, poweredID, runID, connectedLog, lastWait, mpc,
                   wctxCancelled, dpc, rootDone>>
    /\ UNCHANGED <<loopVars, workerVars, storeVars, jobVars, splitVars,
                   dbVars, writeVars, gpsVars, extVars>>

\* present = bluezAdapterExists(ctx, conn, adapterID) under the new id.
SupRecheck ==
    /\ spc = "recheck"
    /\ \E ok \in BOOLEAN : present' = bluezAdapterExists(adapterID, ok)
    /\ probedID' = adapterID
    /\ spc' = "trans"
    /\ UNCHANGED <<adapters, adapterID, knownAddr, wasPresent, backoff,
                   poweredID, runID, connectedLog, lastWait, mpc,
                   wctxCancelled, dpc, rootDone>>
    /\ UNCHANGED <<loopVars, workerVars, storeVars, jobVars, splitVars,
                   dbVars, writeVars, gpsVars, extVars>>

\* if present != wasPresent { ... wasPresent = present }
SupTransition ==
    /\ spc = "trans"
    /\ connectedLog' = (present # wasPresent /\ present)
    /\ \E ok \in BOOLEAN :
          knownAddr' =
             IF present # wasPresent /\ present
                THEN CaptureAddress(knownAddr, bluezAdapterAddress(adapterID, ok))
                ELSE knownAddr
    /\ backoff' = BackoffOnTransition(present, wasPresent, backoff)
    /\ wasPresent' = present
    /\ spc' = IF present THEN "power" ELSE "absentwait"
    /\ UNCHANGED <<adapters, adapterID, present, probedID, poweredID, runID,
                   lastWait, mpc, wctxCancelled, dpc, rootDone>>
    /\ UNCHANGED <<loopVars, workerVars, storeVars, jobVars, splitVars,
                   dbVars, writeVars, gpsVars, extVars>>

\* if !present { select { ctx.Done: return; time.After(2 s): }; continue }
SupAbsentWait ==
    /\ spc = "absentwait"
    /\ IF rootDone
          THEN spc' = "exited" /\ UNCHANGED lastWait
          ELSE spc' = "top" /\ lastWait' = AbsentPoll
    /\ UNCHANGED <<adapters, adapterID, knownAddr, wasPresent, present,
                   backoff, probedID, poweredID, runID, connectedLog, mpc,
                   wctxCancelled, dpc, rootDone>>
    /\ UNCHANGED <<loopVars, workerVars, storeVars, jobVars, splitVars,
                   dbVars, writeVars, gpsVars, extVars>>

\* bluezEnsureAdapterPowered (best effort).
SupPower ==
    /\ spc = "power"
    /\ poweredID' = adapterID
    /\ spc' = "launch"
    /\ UNCHANGED <<adapters, adapterID, knownAddr, wasPresent, present,
                   backoff, probedID, runID, connectedLog, lastWait, mpc,
                   wctxCancelled, dpc, rootDone>>
    /\ UNCHANGED <<loopVars, workerVars, storeVars, jobVars, splitVars,
                   dbVars, writeVars, gpsVars, extVars>>

\* workerCtx, the monitor goroutine, and the call of runBlueZDiscoveryLoop.
SupLaunch ==
    /\ spc = "launch"
    /\ wctxCancelled' = FALSE
    /\ mpc' = "ticking"
    /\ dpc' = "running"
    /\ runID' = adapterID
    /\ spc' = "running"
    /\ UNCHANGED <<adapters, adapterID, knownAddr, wasPresent, present,
                   backoff, probedID, poweredID, connectedLog, lastWait,
                   rootDone>>
    /\ UNCHANGED <<loopVars, workerVars, storeVars, jobVars, splitVars,
                   dbVars, writeVars, gpsVars, extVars>>

\* Monitor, case <-t.C: the adapter is gone (or the call failed): cancel.
MonitorTick ==
    /\ mpc = "ticking"
    /\ \E ok \in BOOLEAN : ~bluezAdapterExists(adapterID, ok)
    /\ wctxCancelled' = TRUE
    /\ mpc' = "done"
    /\ UNCHANGED <<spc, adapters, adapterID, knownAddr, wasPresent, present,
                   backoff, probedID, poweredID, runID, connectedLog,
                   lastWait, dpc, rootDone>>
    /\ UNCHANGED <<loopVars, workerVars, storeVars, jobVars, splitVars,
                   dbVars, writeVars, gpsVars, extVars>>

\* Monitor, case <-workerCtx.Done(): return.
MonitorCtxDone ==
    /\ mpc = "ticking"
    /\ WorkerCtxIsDone
    /\ mpc' = "done"
    /\ UNCHANGED <<spc, adapters, adapterID, knownAddr, wasPresent, present,
                   backoff, probedID, poweredID, runID, connectedLog,
                   lastWait, wctxCancelled, dpc, rootDone>>
    /\ UNCHANGED <<loopVars, workerVars, storeVars, jobVars, splitVars,
                   dbVars, writeVars, gpsVars, extVars>>

\* runBlueZDiscoveryLoop returns: at once when dbus.SystemBus() fails,
\* otherwise only once its context is done.
DiscoveryLoopReturns ==
    /\ dpc = "running"
    /\ \E busFailed \in BOOLEAN : busFailed \/ WorkerCtxIsDone
    /\ dpc' = "returned"
    /\ UNCHANGED <<spc, adapters, adapterID, knownAddr, wasPresent, present,
                   backoff, probedID, poweredID, runID, connectedLog,
                   lastWait, mpc, wctxCancelled, rootDone>>
    /\ UNCHANGED <<loopVars, workerVars, storeVars, jobVars, splitVars,
                   dbVars, writeVars, gpsVars, extVars>>

\* After the run: cancel()
SupAfterRun ==
    /\ spc = "running"
    /\ dpc = "returned"
    /\ wctxCancelled' = TRUE
    /\ dpc' = "off"
    /\ spc' = "join"
    /\ UNCHANGED <<adapters, adapterID, knownAddr, wasPresent, present,
                   backoff, probedID, poweredID, runID, connectedLog,
                   lastWait, mpc, rootDone>>
    /\ UNCHANGED <<loopVars, workerVars, storeVars, jobVars, splitVars,
                   dbVars, writeVars, gpsVars, extVars>>

\* <-monDone; if ctx.Err() != nil { return }
SupJoinMonitor ==
    /\ spc = "join"
    /\ mpc = "done"
    /\ mpc' = "off"
    /\ spc' = IF rootDone THEN "exited" ELSE "restartwait"
    /\ UNCHANGED <<adapters, adapterID, knownAddr, wasPresent, present,
                   backoff, probedID, poweredID, runID, connectedLog,
                   lastWait, wctxCancelled, dpc, rootDone>>
    /\ UNCHANGED <<loopVars, workerVars, storeVars, jobVars, splitVars,
                   dbVars, writeVars, gpsVars, extVars>>

\* select { ctx.Done: return; time.After(backoff): }; then the doubling.
SupRestartWait ==
    /\ spc = "restartwait"
    /\ IF rootDone
          THEN spc' = "exited" /\ UNCHANGED <<lastWait, backoff>>
          ELSE /\ lastWait' = backoff
               /\ backoff' = NextBackoff(backoff)
               /\ spc' = "top"
    /\ UNCHANGED <<adapters, adapterID, knownAddr, wasPresent, present,
                   probedID, poweredID, runID, connectedLog, mpc,
                   wctxCancelled, dpc, rootDone>>
    /\ UNCHANGED <<loopVars, workerVars, storeVars, jobVars, splitVars,
                   dbVars, writeVars, gpsVars, extVars>>

\* Root cancellation (INT/TERM).
RootCancel ==
    /\ ~rootDone
    /\ rootDone' = TRUE
    /\ UNCHANGED <<spc, adapters, adapterID, knownAddr, wasPresent, present,
                   backoff, probedID, poweredID, runID, connectedLog,
                   lastWait, mpc, wctxCancelled, dpc>>
    /\ UNCHANGED <<loopVars, workerVars, storeVars, jobVars, splitVars,
                   dbVars, writeVars, gpsVars, extVars>>

\* Environment: a controller is unplugged; its path disappears.
Unplug(id) ==
    /\ adapters[id] # ""
    /\ adapters' = [adapters EXCEPT ![id] = ""]
    /\ UNCHANGED <<spc, adapterID, knownAddr, wasPresent, present, backoff,
                   probedID, poweredID, runID, connectedLog, lastWait, mpc,
                   wctxCancelled, dpc, rootDone>>
    /\ UNCHANGED <<loopVars, workerVars, storeVars, jobVars, splitVars,
                   dbVars, writeVars, gpsVars, extVars>>

\* Environment: a controller is plugged in and gets a free id; a controller
\* address belongs to one controller.
Plug(id, a) ==
    /\ adapters[id] = ""
    /\ \A j \in AdapterIDs : adapters[j] # a
    /\ adapters' = [adapters EXCEPT ![id] = a]
    /\ UNCHANGED <<spc, adapterID, knownAddr, wasPresent, present, backoff,
                   probedID, poweredID, runID, connectedLog, lastWait, mpc,
                   wctxCancelled, dpc, rootDone>>
    /\ UNCHANGED <<loopVars, workerVars, storeVars, jobVars, splitVars,
                   dbVars, writeVars, gpsVars, extVars>>

\* Object-manager states: at most one path per controller address.
AdapterStates ==
    {f \in [AdapterIDs -> ControllerAddrs \cup {""}] :
        \A i, j \in AdapterIDs : (i # j /\ f[i] # "") => f[i] # f[j]}

InitSup ==
    /\ spc = "init"
    /\ adapters \in AdapterStates
    /\ adapterID = ConfiguredAdapter
    /\ knownAddr = ""
    /\ wasPresent = FALSE
    /\ present = FALSE
    /\ backoff = BackoffStart
    /\ probedID = "" /\ poweredID = "" /\ runID = ""
    /\ connectedLog = FALSE
    /\ lastWait = 0
    /\ mpc = "off"
    /\ wctxCancelled = FALSE
    /\ dpc = "off"
    /\ rootDone = FALSE
    /\ LoopIdle
    /\ SplitIdle
    /\ DbIdle
    /\ WriteIdle
    /\ GpsIdle /\ ExtIdle

NextSup ==
    \/ SupInit
    \/ SupTop
    \/ SupProbe
    \/ SupFind
    \/ SupRecheck
    \/ SupTransition
    \/ SupAbsentWait
    \/ SupPower
    \/ SupLaunch
    \/ MonitorTick
    \/ MonitorCtxDone
    \/ DiscoveryLoopReturns
    \/ SupAfterRun
    \/ SupJoinMonitor
    \/ SupRestartWait
    \/ RootCancel
    \/ \E id \in AdapterIDs : Unplug(id)
    \/ \E id \in AdapterIDs, a \in ControllerAddrs : Plug(id, a)

SpecSup == InitSup /\ [][NextSup]_vars

(***************************************************************************)
(* Properties of the supervisor (checked under SpecSup).                   *)
(***************************************************************************)
\* C7: the adapter id changes only in the rebind step, after the presence
\* check found the current path absent, and only to a different id whose
\* path carries the remembered address; the presence check that decides the
\* transition, the power-on and the discovery run all use the current id;
\* the remembered address, once captured, never changes, and it is captured
\* from the adapter's own path.
C7_RebindOnlyByAddress ==
    /\ [][adapterID' # adapterID
             => /\ spc = "find"
                /\ ~present
                /\ probedID = adapterID
                /\ knownAddr # ""
                /\ adapters[adapterID'] = knownAddr]_vars
    /\ [][knownAddr # "" => knownAddr' = knownAddr]_vars
    /\ [][knownAddr' # knownAddr => knownAddr' = adapters[adapterID]]_vars
    /\ [](spc \in {"trans", "power", "absentwait"} => probedID = adapterID)
    /\ [](spc \in {"launch", "running", "join"} => poweredID = adapterID)
    /\ [](spc \in {"running", "join"} => runID = adapterID)

\* C7 witness: the supervisor rebound to another id and runs discovery
\* there, on the controller whose address it remembered.
C7_Witness ==
    /\ adapterID # ConfiguredAdapter
    /\ spc = "running"
    /\ runID = adapterID
    /\ poweredID = adapterID
    /\ knownAddr # ""

\* The step is the timer wait before a restart (not the cancelled one).
RestartWaitStep == spc = "restartwait" /\ spc' = "top"

\* C8: the backoff starts at 1 s, only ever is 1, 2, 4 or 8 s, doubles
\* after each restart wait while below 8 s and stays at 8 s, and otherwise
\* changes only by the reset to 1 s.
C8_BackoffValues ==
    /\ backoff = 1
    /\ [](backoff \in {1, 2, 4, 8})
    /\ [][RestartWaitStep
             => backoff' = IF backoff = 8 THEN 8 ELSE 2 * backoff]_vars
    /\ [][(backoff' # backoff /\ ~RestartWaitStep) => backoff' = 1]_vars

\* C8 witness: the backoff reached its cap of 8 s and a restart waited 8 s.
C8_Witness == backoff = 8 /\ lastWait = 8 /\ spc = "top"

\* C9: the step that observes absent -> present sets the backoff to 1 s;
\* it stays 1 s until the discovery loop launched in that iteration has
\* returned, and the restart wait after that run lasts 1 s.
C9_BackoffResetOnReconnect ==
    /\ [][(spc = "trans" /\ spc' # "trans" /\ present /\ ~wasPresent)
             => backoff' = 1 /\ connectedLog']_vars
    /\ []((connectedLog /\ spc \in {"power", "launch", "running", "join",
                                     "restartwait"})
             => backoff = 1)
    /\ [][(RestartWaitStep /\ connectedLog) => lastWait' = 1]_vars

\* C9 witness: after a rebind to another id the adapter was seen coming
\* back while the backoff had grown, and the restart after that run waited
\* 1 s.
C9_Witness ==
    /\ adapterID # ConfiguredAdapter
    /\ connectedLog
    /\ spc = "top"
    /\ lastWait = 1
    /\ backoff = 2

(***************************************************************************)
(* StartContinuousScanAndConnectMulti: the split of max_connect_total      *)
(* across the adapters.  The adapter list holds distinct ids (main builds  *)
(* it with uniqueStrings); the ids are numbered in list order, 0-based as   *)
(* the loop index.                                                         *)
(***************************************************************************)
\* Mutant: the remainder test is off by one.
LimitFor_OffByOne(i, p, r) == IF i <= r THEN p + 1 ELSE p

\* maxConn := per; if i < rest { maxConn++ }
LimitFor(i, p, r) == IF i < r THEN p + 1 ELSE p

\* if maxConnect < 1 { maxConnect = 1 } (also in runManagedAdapterLoop)
AtLeastOne(n) == IF n < 1 THEN 1 ELSE n

\* The checks, the clamp, per and rest.
SplitStart ==
    /\ kpc = "start"
    /\ IF nAdapters = 0
          THEN /\ kpc' = "no adapters"
               /\ UNCHANGED <<maxConnectTotal, per, rest>>
          ELSE /\ maxConnectTotal' = AtLeastOne(maxConnectTotal)
               /\ LET p == maxConnectTotal' \div nAdapters
                      r == maxConnectTotal' % nAdapters
                  IN  IF p < 1
                         THEN per' = 1 /\ rest' = 0
                         ELSE per' = p /\ rest' = r
               /\ kpc' = "limits"
    /\ UNCHANGED <<nAdapters, idx, limits>>
    /\ UNCHANGED <<loopVars, workerVars, storeVars, jobVars, supVars,
                   dbVars, writeVars, gpsVars, extVars>>

\* for i, a := range adapterIDs { ...; limits[a] = maxConn }
SplitLimit ==
    /\ kpc = "limits"
    /\ IF idx < nAdapters
          THEN /\ limits' = MapSet(limits, idx, LimitFor(idx, per, rest))
               /\ idx' = idx + 1
               /\ kpc' = "limits"
          ELSE /\ kpc' = "launched"
               /\ UNCHANGED <<limits, idx>>
    /\ UNCHANGED <<maxConnectTotal, nAdapters, per, rest>>
    /\ UNCHANGED <<loopVars, workerVars, storeVars, jobVars, supVars,
                   dbVars, writeVars, gpsVars, extVars>>

InitSplit ==
    /\ kpc = "start"
    /\ maxConnectTotal \in -1..MaxTotal
    /\ nAdapters \in 0..MaxAdapters
    /\ per = 0 /\ rest = 0 /\ idx = 0
    /\ limits = <<>>
    /\ LoopIdle
    /\ SupIdle
    /\ DbIdle
    /\ WriteIdle
    /\ GpsIdle /\ ExtIdle

NextSplit == SplitStart \/ SplitLimit

SpecSplit == InitSplit /\ [][NextSplit]_vars

\* The worker pool size the supervisor of adapter i runs with.
PoolSize(i) == AtLeastOne(limits[i])

RECURSIVE SumPools(_)
SumPools(n) == IF n = 0 THEN 0 ELSE PoolSize(n - 1) + SumPools(n - 1)

\* C10: once the supervisors are launched, adapter i (0-based) has
\* floor(total/n) workers, one more if i < total mod n, and at least 1; for
\* total >= n the pools sum to total and differ by at most one; for
\* total < n every pool is 1.
C10_PoolSplit ==
    kpc = "launched" =>
       LET t == maxConnectTotal
           n == nAdapters
       IN  /\ t >= 1 /\ n >= 1
           /\ DOMAIN limits = 0..(n - 1)
           /\ \A i \in 0..(n - 1) :
                 LET share == (t \div n) + (IF i < t % n THEN 1 ELSE 0)
                 IN  PoolSize(i) = IF share < 1 THEN 1 ELSE share
           /\ t >= n =>
                 /\ SumPools(n) = t
                 /\ \A i, j \in 0..(n - 1) :
                       PoolSize(i) - PoolSize(j) \in {-1, 0, 1}
           /\ t < n => \A i \in 0..(n - 1) : PoolSize(i) = 1

\* C10 witness: 5 connections over 3 adapters are split 2, 2, 1.
C10_Witness ==
    /\ kpc = "launched"
    /\ maxConnectTotal = 5
    /\ nAdapters = 3
    /\ limits = (0 :> 2) @@ (1 :> 2) @@ (2 :> 1)

(***************************************************************************)
(* SpecStore: db.Store's devices and advertisements tables, called in any  *)
(* order by the discovery loops and connect workers of any adapter.  Every *)
(* method holds Store.mu for its whole body, so each call is one step.     *)
(* Timestamps are util.NowTimestamp() of the caller, in seconds.           *)
(***************************************************************************)
MaxStoreTicks == 2
MaxAdvertisements == 1

\* detection_count rises when >= 30*time.Minute passed.
CountWindow == 1800

StoreSteps == {600, 1200, 1500}

\* MACs as callers may pass them, and the values of device_type they pass.
MACInputs == {"aa", "AA", " bb", ""}
DeviceTypes == {"ble", "classic", "dual"}

\* strings.ToUpper(strings.TrimSpace(mac))
normalizeMAC(mac) ==
    CASE mac = "aa" -> "AA"
      [] mac = "AA" -> "AA"
      [] mac = " bb" -> "BB"
      [] mac = "BB" -> "BB"
      [] OTHER -> ""

MergeDeviceType_KeepStored(typeStr, incoming) ==
    IF typeStr = "" THEN incoming ELSE typeStr

\* Merge/upgrade of device_type on the update path (incoming is never nil
\* or blank at the call sites; the comparison is case-insensitive and all
\* values are lower case).
MergeDeviceType(typeStr, incoming) ==
    IF incoming = "" THEN typeStr
    ELSE IF typeStr = "" THEN incoming
    ELSE IF typeStr = "dual" THEN typeStr
    ELSE IF incoming = "dual" THEN "dual"
    ELSE IF typeStr # incoming THEN "dual"
    ELSE typeStr

\* The test that increments detection_count: last_count_update is empty,
\* or at least 30 minutes lie between it and the save timestamp (both
\* strings were written by NowTimestamp and always parse).
BumpsCount(lastUpdate, ts) ==
    lastUpdate = {} \/ \E prev \in lastUpdate : ts - prev >= CountWindow

\* The UPDATE of the update path, on the columns the model keeps.
UpdatedDevice(row, incoming, ts) ==
    LET bump == BumpsCount(row.last_count_update, ts)
    IN  [row EXCEPT
            !.device_type = MergeDeviceType(row.device_type, incoming),
            !.detection_count = IF bump THEN @ + 1 ELSE @,
            !.last_count_update = IF bump THEN {ts} ELSE @]

\* INSERT OR IGNORE of the insert path: detection_count 1, last_count_update
\* the save timestamp.
InsertedDevice(tbl, mac, incoming, ts) ==
    [id |-> Cardinality(DOMAIN tbl) + 1, mac |-> mac,
     device_type |-> incoming, detection_count |-> 1,
     last_count_update |-> {ts}]

\* The minimal row InsertAdvertisement creates: device_type "ble", the
\* column default 1 for detection_count, no last_count_update.
StubDevice(tbl, mac) ==
    [id |-> Cardinality(DOMAIN tbl) + 1, mac |-> mac,
     device_type |-> "ble", detection_count |-> 1,
     last_count_update |-> {}]

ResolveDeviceID_First(tbl, mac) == 1

\* SELECT id FROM devices WHERE mac = ?
ResolveDeviceID(tbl, mac) == tbl[mac].id

DetectionCount(tbl, m) ==
    IF m \in DOMAIN tbl THEN tbl[m].detection_count ELSE 0

\* History bookkeeping shared by the store's actions.
Counted ==
    countedAt' =
        [m \in DOMAIN devices' |->
            IF DetectionCount(devices', m) > DetectionCount(devices, m)
               THEN {sclock}
               ELSE countedAt[m]]

UnchangedHist ==
    UNCHANGED <<gpsHistLast, gpsHistLastAt, gpsHistory>>

UnchangedGatt ==
    UNCHANGED <<gattCharacteristics, gattDescriptors, lastUpsert>>

\* Store.SaveDevice.  ok: the statements of this call succeed.
SaveDevice(macIn, incoming, updateExisting, ok) ==
    LET mac == normalizeMAC(macIn)
        exists == mac \in DOMAIN devices
    IN  /\ devices' =
              IF mac = "" \/ ~ok THEN devices
              ELSE IF updateExisting /\ exists
                 THEN MapSet(devices, mac,
                             UpdatedDevice(devices[mac], incoming, sclock))
              ELSE IF exists THEN devices
              ELSE MapSet(devices, mac,
                          InsertedDevice(devices, mac, incoming, sclock))
        /\ Counted
        /\ UNCHANGED <<sclock, sticks, advertisements>>
        /\ UnchangedHist /\ UnchangedGatt
        /\ UNCHANGED <<loopVars, workerVars, storeVars, jobVars, supVars,
                       splitVars, writeVars, gpsVars, extVars>>

\* Store.InsertAdvertisement.  okStub: the stub INSERT succeeds; okIns: the
\* lookups and the INSERT into advertisements succeed.
InsertAdvertisement(macIn, okStub, okIns) ==
    LET mac == normalizeMAC(macIn)
        withStub == IF mac # "" /\ mac \notin DOMAIN devices /\ okStub
                       THEN MapSet(devices, mac, StubDevice(devices, mac))
                       ELSE devices
        linked == mac \in DOMAIN withStub /\ okIns
    IN  /\ Len(advertisements) < MaxAdvertisements
        /\ devices' = withStub
        /\ advertisements' =
              IF linked
                 THEN Append(advertisements,
                             [id |-> Len(advertisements) + 1,
                              device_id |-> ResolveDeviceID(withStub, mac),
                              mac |-> mac])
                 ELSE advertisements
        /\ Counted
        /\ UNCHANGED <<sclock, sticks>>
        /\ UnchangedHist /\ UnchangedGatt
        /\ UNCHANGED <<loopVars, workerVars, storeVars, jobVars, supVars,
                       splitVars, writeVars, gpsVars, extVars>>

\* Time passes between two calls.
StoreTick ==
    /\ sticks < MaxStoreTicks
    /\ \E d \in StoreSteps : sclock' = sclock + d
    /\ sticks' = sticks + 1
    /\ UNCHANGED <<devices, advertisements, countedAt>>
    /\ UnchangedHist /\ UnchangedGatt
    /\ UNCHANGED <<loopVars, workerVars, storeVars, jobVars, supVars,
                   splitVars, writeVars, gpsVars, extVars>>

\* A store freshly created by Initialize.
InitStore ==
    /\ sclock = 0 /\ sticks = 0 /\ devices = <<>> /\ advertisements = <<>>
    /\ countedAt = <<>>
    /\ gpsHistLast = <<>> /\ gpsHistLastAt = <<>> /\ gpsHistory = <<>>
    /\ gattCharacteristics = <<>> /\ gattDescriptors = <<>>
    /\ lastUpsert = <<>>
    /\ LoopIdle /\ SupIdle /\ SplitIdle /\ WriteIdle /\ GpsIdle /\ ExtIdle

\* The BlueZ loops and the connect workers save with update_existing and
\* one of the three families; the advertisement scanner saves "ble" with
\* update_existing = DeviceExists(mac).
NextStore ==
    \/ \E m \in MACInputs, t \in DeviceTypes, ok \in BOOLEAN :
          SaveDevice(m, t, TRUE, ok)
    \/ \E m \in MACInputs, ok \in BOOLEAN : SaveDevice(m, "ble", FALSE, ok)
    \/ \E m \in MACInputs, okStub \in BOOLEAN, okIns \in BOOLEAN :
          InsertAdvertisement(m, okStub, okIns)
    \/ StoreTick

SpecStore == InitStore /\ [][NextStore]_vars


StoredMACs == {normalizeMAC(m) : m \in MACInputs} \ {""}

\* C11: for every MAC the stored detection_count (0 while the MAC has no
\* row) never decreases, rises by one at a time, and rises only when at
\* least 30 minutes passed since it last rose, whatever the store calls.
C11_CountRisesOncePerWindow ==
    [][\A m \in StoredMACs :
          LET before == DetectionCount(devices, m)
              after == DetectionCount(devices', m)
          IN  /\ after >= before
              /\ after <= before + 1
              /\ (after > before /\ m \in DOMAIN countedAt)
                    => \A t \in countedAt[m] : sclock - t >= CountWindow]_vars

\* A successful SaveDevice step on MAC input m.
SaveStep(m, t, updateExisting) ==
    normalizeMAC(m) # "" /\ SaveDevice(m, t, updateExisting, TRUE)

\* C12: a save on a missing MAC inserts detection_count 1 with
\* last_count_update the save timestamp; a save with update_existing on an
\* existing row adds one and stamps last_count_update exactly when the save
\* timestamp is at least 30 minutes after the stored last_count_update, and
\* otherwise leaves both unchanged.
C12_SaveCountsByWindow ==
    [][\A m \in MACInputs, t \in DeviceTypes :
          LET mac == normalizeMAC(m)
          IN  /\ (SaveStep(m, t, TRUE) \/ SaveStep(m, t, FALSE))
                 /\ mac \notin DOMAIN devices
                    => /\ devices'[mac].detection_count = 1
                       /\ devices'[mac].last_count_update = {sclock}
              /\ SaveStep(m, t, TRUE) /\ mac \in DOMAIN devices
                    => LET row == devices[mac]
                           due ==
                               \E prev \in row.last_count_update :
                                   sclock - prev >= CountWindow
                       IN  IF due
                              THEN /\ devices'[mac].detection_count =
                                          row.detection_count + 1
                                   /\ devices'[mac].last_count_update =
                                          {sclock}
                              ELSE /\ devices'[mac].detection_count =
                                          row.detection_count
                                   /\ devices'[mac].last_count_update =
                                          row.last_count_update]_vars

\* C13: every stored device_type is ble, classic or dual, and a save that
\* merges follows the promotion rule: empty takes the observed value, dual
\* stays dual, a different observation on a non-dual value gives dual, the
\* same observation keeps the value; an insert stores the observed value.
C13_FamilyPromotion ==
    /\ [](\A mac \in DOMAIN devices :
              devices[mac].device_type \in DeviceTypes)
    /\ [][\A mac \in StoredMACs, t \in DeviceTypes :
             IF mac \in DOMAIN devices
                THEN LET stored == devices[mac].device_type
                         merged == devices'[mac].device_type
                     IN  \/ /\ stored = "" => merged = t
                            /\ stored = "dual" => merged = "dual"
                            /\ stored \notin {"", "dual"} /\ t # stored
                                  => merged = "dual"
                            /\ stored # "" /\ t = stored => merged = stored
                         \/ ~SaveStep(mac, t, TRUE)
                ELSE \/ /\ mac \in DOMAIN devices'
                        /\ devices'[mac].device_type = t
                     \/ ~SaveStep(mac, t, TRUE)]_vars

\* A row that was promoted and then saved again: it was counted twice,
\* so it received at least one merging save.
C13_Witness ==
    /\ "AA" \in DOMAIN devices
    /\ devices["AA"].device_type = "dual"
    /\ devices["AA"].detection_count = 2
    /\ "BB" \in DOMAIN devices
    /\ devices["BB"].device_type = "classic"

\* C17: every advertisement row's device_id is the id of an existing
\* device row with the same MAC up to case, and an insert for a MAC with
\* no device row creates the minimal row and links to it.
C17_AdvertisementHasDevice ==
    /\ [](\A i \in 1..Len(advertisements) :
              \E mac \in DOMAIN devices :
                  /\ devices[mac].id = advertisements[i].device_id
                  /\ normalizeMAC(devices[mac].mac) # ""
                  /\ normalizeMAC(devices[mac].mac) =
                         normalizeMAC(advertisements[i].mac))
    /\ [][Len(advertisements') = Len(advertisements) + 1
             => LET ad == advertisements'[Len(advertisements')]
                IN  ad.mac \notin DOMAIN devices
                       => /\ ad.mac \in DOMAIN devices'
                          /\ devices'[ad.mac].id = ad.device_id
                          /\ devices'[ad.mac].detection_count = 1
                          /\ devices'[ad.mac].last_count_update = {}
                          /\ \A o \in DOMAIN devices :
                                 devices'[o] = devices[o]]_vars

\* An advertisement linked to the row its own insert created, in a table
\* that already held another device.
C17_Witness ==
    /\ Len(advertisements) = 1
    /\ advertisements[1].mac \in DOMAIN devices
    /\ devices[advertisements[1].mac].last_count_update = {}
    /\ devices[advertisements[1].mac].id = 2
    /\ advertisements[1].device_id = 2


(***************************************************************************)
(* SpecHist: Store.RecordDeviceGPSHistoryIfChanged with its two in-memory  *)
(* caches, called by the discovery loops of any adapter.                   *)
(***************************************************************************)
MaxHistTicks == 3
MaxHistory == 3

\* const minInterval = 30 * time.Second
MinInterval == 30

HistSteps == {10, 20}

\* GPS texts as callers may pass them.
TextInputs == {"A", " A", "B", ""}

\* strings.TrimSpace(gpsText)
TrimSpace(text) ==
    CASE text = "A" -> "A"
      [] text = " A" -> "A"
      [] text = "B" -> "B"
      [] text = " s1" -> "s1"
      [] text = "c1" -> "c1"
      [] text = "d1" -> "d1"
      [] text = "cokeon" -> "cokeon"
      [] OTHER -> ""

HistoryOf(m) == IF m \in DOMAIN gpsHistory THEN gpsHistory[m] ELSE <<>>

HistThrottled_Short(mac, gpsText, t) ==
    /\ mac \in DOMAIN gpsHistLast /\ gpsHistLast[mac] = gpsText
    /\ mac \in DOMAIN gpsHistLastAt /\ t - gpsHistLastAt[mac] < 20

\* lastTxt == gpsText && !lastAt.IsZero() && time.Since(lastAt) < minInterval
\* (a MAC without an entry reads as "" and the zero time; gpsText is not
\* empty here).
HistThrottled(mac, gpsText, t) ==
    /\ mac \in DOMAIN gpsHistLast /\ gpsHistLast[mac] = gpsText
    /\ mac \in DOMAIN gpsHistLastAt /\ t - gpsHistLastAt[mac] < MinInterval

\* Store.RecordDeviceGPSHistoryIfChanged.  ok: the INSERT succeeds (it
\* fails, for one, when the MAC has no device row yet).
RecordDeviceGPSHistoryIfChanged(macIn, textIn, ok) ==
    LET mac == normalizeMAC(macIn)
        gpsText == TrimSpace(textIn)
        written == /\ mac # "" /\ gpsText # ""
                   /\ ~HistThrottled(mac, gpsText, sclock)
                   /\ ok
    IN  /\ Len(HistoryOf(mac)) < MaxHistory
        /\ IF written
              THEN /\ gpsHistory' =
                        MapSet(gpsHistory, mac,
                               Append(HistoryOf(mac),
                                      [gps_text |-> gpsText, at |-> sclock]))
                   /\ gpsHistLast' = MapSet(gpsHistLast, mac, gpsText)
                   /\ gpsHistLastAt' = MapSet(gpsHistLastAt, mac, sclock)
              ELSE UNCHANGED <<gpsHistory, gpsHistLast, gpsHistLastAt>>
        /\ UNCHANGED <<sclock, sticks, devices, advertisements, countedAt>>
        /\ UnchangedGatt
        /\ UNCHANGED <<loopVars, workerVars, storeVars, jobVars, supVars,
                       splitVars, writeVars, gpsVars, extVars>>

HistTick ==
    /\ sticks < MaxHistTicks
    /\ \E d \in HistSteps : sclock' = sclock + d
    /\ sticks' = sticks + 1
    /\ UNCHANGED <<devices, advertisements, countedAt>>
    /\ UnchangedHist /\ UnchangedGatt
    /\ UNCHANGED <<loopVars, workerVars, storeVars, jobVars, supVars,
                   splitVars, writeVars, gpsVars, extVars>>

InitHist ==
    /\ DbIdle
    /\ LoopIdle /\ SupIdle /\ SplitIdle /\ WriteIdle /\ GpsIdle /\ ExtIdle

NextHist ==
    \/ \E m \in MACInputs, x \in TextInputs, ok \in BOOLEAN :
          RecordDeviceGPSHistoryIfChanged(m, x, ok)
    \/ HistTick

SpecHist == InitHist /\ [][NextHist]_vars

\* C15: for every MAC, any two GPS history rows with the same text are at
\* least 30 s apart (rows with one text within 30 s collapse to one), for
\* any sequence of texts.
C15_SameTextRowsCollapse ==
    \A m \in DOMAIN gpsHistory :
        \A i, j \in 1..Len(gpsHistory[m]) :
            i < j /\ gpsHistory[m][i].gps_text = gpsHistory[m][j].gps_text
               => gpsHistory[m][j].at - gpsHistory[m][i].at >= MinInterval

\* C15 (amended): a row is appended only when its text differs from the
\* MAC's latest row or that row is at least 30 s old, so two consecutive
\* rows of a MAC with the same text are at least 30 s apart.
C15_ConsecutiveSameTextRowsCollapse ==
    /\ [](\A m \in DOMAIN gpsHistory :
              \A i \in 1..Len(gpsHistory[m]) - 1 :
                  gpsHistory[m][i].gps_text = gpsHistory[m][i + 1].gps_text
                     => gpsHistory[m][i + 1].at - gpsHistory[m][i].at
                            >= MinInterval)
    /\ [][\A m \in StoredMACs :
             LET old == HistoryOf(m)
                 new == IF m \in DOMAIN gpsHistory'
                           THEN gpsHistory'[m] ELSE <<>>
             IN  /\ Len(new) >= Len(old)
                 /\ Len(new) <= Len(old) + 1
                 /\ \A i \in 1..Len(old) : new[i] = old[i]
                 /\ (Len(new) > Len(old) /\ Len(old) > 0)
                       => \/ new[Len(new)].gps_text # old[Len(old)].gps_text
                          \/ sclock - old[Len(old)].at >= MinInterval]_vars

\* A, B, A written within 30 s, all three kept.
C15_Witness ==
    /\ "AA" \in DOMAIN gpsHistory
    /\ Len(gpsHistory["AA"]) = 3
    /\ gpsHistory["AA"][1].gps_text = "A"
    /\ gpsHistory["AA"][2].gps_text = "B"
    /\ gpsHistory["AA"][3].gps_text = "A"
    /\ gpsHistory["AA"][3].at - gpsHistory["AA"][1].at < MinInterval


(***************************************************************************)
(* SpecGatt: Store.UpsertGattCharacteristic and Store.UpsertGattDescriptor *)
(* on one primary key each.  A nullable column is a set with at most one   *)
(* element.  Every dump stamps its calls with its own timestamp, and the   *)
(* values a call carries are tagged with that timestamp, so that a column  *)
(* shows which call wrote it.                                              *)
(***************************************************************************)
\* Timestamps of the dumps that write the key.
Dumps == {1, 2}
ReadErrors == {{}, {"timeout"}}

CharColumns ==
    {"service_handle", "char_handle", "flags_json", "value_hex",
     "value_ascii"}
DescColumns == {"desc_handle", "flags_json", "value_hex", "value_ascii"}

\* The parameters of one call: each nullable column is nil or carries the
\* dump's value; ReadError is nil or a message; LastReadAt is the dump's
\* timestamp.
UpsertParams(columns) ==
    {[cols |-> [c \in columns |-> IF c \in carried THEN {g} ELSE {}],
      read_error |-> e, last_read_at |-> g] :
        carried \in SUBSET columns, g \in Dumps, e \in ReadErrors}

\* Keys as callers may pass them: MAC, service UUID, characteristic UUID
\* (and descriptor UUID); one of each kind has a blank part.
CharKeyInputs == {<<"aa", " s1", "c1">>, <<"aa", "", "c1">>}
DescKeyInputs == {<<"aa", " s1", "c1", "d1">>, <<"aa", " s1", "c1", "">>}

\* The key as stored: normalizeMAC on the MAC, TrimSpace on the UUIDs.
StoredKey(k) ==
    [i \in DOMAIN k |-> IF i = 1 THEN normalizeMAC(k[i]) ELSE TrimSpace(k[i])]

\* if p.MAC == "" || strings.TrimSpace(...) == "" { return nil }
BlankKey(k) == \E i \in DOMAIN k : StoredKey(k)[i] = ""

\* COALESCE(excluded.col, table.col)
Coalesce(excluded, stored) == IF excluded # {} THEN excluded ELSE stored

ReplaceReadError_Coalesced(excluded, stored) ==
    IF excluded # {} THEN excluded ELSE stored

\* read_error = excluded.read_error
ReplaceReadError(excluded, stored) == excluded

\* INSERT ... ON CONFLICT(key) DO UPDATE SET ...: the row after the call.
Upserted(tbl, key, p) ==
    IF key \in DOMAIN tbl
       THEN [cols |-> [c \in DOMAIN p.cols |->
                          Coalesce(p.cols[c], tbl[key].cols[c])],
             read_error |-> ReplaceReadError(p.read_error,
                                             tbl[key].read_error),
             last_read_at |-> p.last_read_at]
       ELSE p

UpsertEffect(tbl, k, p, ok) ==
    IF BlankKey(k) \/ ~ok
       THEN tbl
       ELSE MapSet(tbl, StoredKey(k), Upserted(tbl, StoredKey(k), p))

UpsertRecord(name, k, p, ok) ==
    IF BlankKey(k) \/ ~ok
       THEN [op |-> name, key |-> <<>>, params |-> <<>>, written |-> FALSE]
       ELSE [op |-> name, key |-> StoredKey(k), params |-> p,
             written |-> TRUE]

\* Store.UpsertGattCharacteristic.  The two statements touch different
\* tables, so a run works on one table: no sequence of calls on one key
\* is lost.
UpsertGattCharacteristic(k, p, ok) ==
    /\ gattDescriptors = <<>>
    /\ gattCharacteristics' = UpsertEffect(gattCharacteristics, k, p, ok)
    /\ lastUpsert' = UpsertRecord("UpsertGattCharacteristic", k, p, ok)
    /\ UNCHANGED gattDescriptors
    /\ UNCHANGED <<sclock, sticks, devices, advertisements, countedAt>>
    /\ UnchangedHist
    /\ UNCHANGED <<loopVars, workerVars, storeVars, jobVars, supVars,
                   splitVars, writeVars, gpsVars, extVars>>

\* Store.UpsertGattDescriptor.
UpsertGattDescriptor(k, p, ok) ==
    /\ gattCharacteristics = <<>>
    /\ gattDescriptors' = UpsertEffect(gattDescriptors, k, p, ok)
    /\ lastUpsert' = UpsertRecord("UpsertGattDescriptor", k, p, ok)
    /\ UNCHANGED gattCharacteristics
    /\ UNCHANGED <<sclock, sticks, devices, advertisements, countedAt>>
    /\ UnchangedHist
    /\ UNCHANGED <<loopVars, workerVars, storeVars, jobVars, supVars,
                   splitVars, writeVars, gpsVars, extVars>>

InitGatt ==
    /\ DbIdle
    /\ LoopIdle /\ SupIdle /\ SplitIdle /\ WriteIdle /\ GpsIdle /\ ExtIdle

NextGatt ==
    \/ \E k \in CharKeyInputs, p \in UpsertParams(CharColumns),
          ok \in BOOLEAN : UpsertGattCharacteristic(k, p, ok)
    \/ \E k \in DescKeyInputs, p \in UpsertParams(DescColumns),
          ok \in BOOLEAN : UpsertGattDescriptor(k, p, ok)

SpecGatt == InitGatt /\ [][NextGatt]_vars

\* The table the latest call addressed, before and after the step.
TableOf(name, chars, descs) ==
    IF name = "UpsertGattCharacteristic" THEN chars ELSE descs

\* C16: after a call that wrote, on a key that already had a row, every
\* nullable column the call carried as null keeps its stored value (a
\* stored non-null value in particular), every column it carried non-null
\* has the new value, and read_error and last_read_at are those of the
\* call, a null read_error included.
C16_UpsertKeepsNonNull ==
    [][(lastUpsert' # <<>> /\ lastUpsert'.written)
          => LET old == TableOf(lastUpsert'.op, gattCharacteristics,
                                gattDescriptors)
                 new == TableOf(lastUpsert'.op, gattCharacteristics',
                                gattDescriptors')
                 key == lastUpsert'.key
                 p == lastUpsert'.params
             IN  /\ key \in DOMAIN new
                 /\ new[key].read_error = p.read_error
                 /\ new[key].last_read_at = p.last_read_at
                 /\ \A c \in DOMAIN p.cols :
                        /\ p.cols[c] # {} => new[key].cols[c] = p.cols[c]
                        /\ (p.cols[c] = {} /\ key \in DOMAIN old)
                              => new[key].cols[c] = old[key].cols[c]
                        /\ (p.cols[c] = {} /\ key \notin DOMAIN old)
                              => new[key].cols[c] = {}]_vars

\* The second dump carried null for the value and the flags and no error:
\* the row keeps the first dump's value and flags, takes the second dump's
\* handle and timestamp, and its read_error is cleared.
C16_Witness ==
    /\ lastUpsert # <<>>
    /\ lastUpsert.op = "UpsertGattCharacteristic"
    /\ lastUpsert.written
    /\ lastUpsert.params.last_read_at = 2
    /\ lastUpsert.params.read_error = {}
    /\ lastUpsert.params.cols["value_hex"] = {}
    /\ lastUpsert.params.cols["flags_json"] = {}
    /\ lastUpsert.key \in DOMAIN gattCharacteristics
    /\ gattCharacteristics[lastUpsert.key].cols["value_hex"] = {1}
    /\ gattCharacteristics[lastUpsert.key].cols["flags_json"] = {1}
    /\ gattCharacteristics[lastUpsert.key].cols["char_handle"] = {2}
    /\ gattCharacteristics[lastUpsert.key].read_error = {}
    /\ gattCharacteristics[lastUpsert.key].last_read_at = 2


(***************************************************************************)
(* SpecGps: gps.State with one reader loop (gpsd or serial), watchdogLoop  *)
(* and main's WaitForFirstPacket.  Every access to State holds State.mu.   *)
(***************************************************************************)
MaxGpsTicks == 3

\* gps.NewState(useGPS, 300*time.Second)
FreshnessTimeout == 300
\* const noPacketTimeout = 12 * time.Second
NoPacketTimeout == 12
\* const minReconnectPeriod = 10 * time.Second
MinReconnectPeriod == 10
\* gpsState.WaitForFirstPacket(ctx, 3*time.Second)
FirstPacketTimeout == 3

GpsSteps == {3, 10, 300}

\* Positions a packet may carry; {} is a packet without a usable fix.
Positions == {{}, {"p1"}, {"p2"}}

\* case <-time.After(2 * time.Second) of the reader loops
RetryWait == 2

obsVars == <<opc, obsText, obsSnap, obsSource, obsKind>>

GpsUnchangedOthers ==
    UNCHANGED <<loopVars, workerVars, storeVars, jobVars, supVars,
                splitVars, dbVars, writeVars, extVars>>

\* Variant of FixIsFresh: a fix of exactly the timeout's age is stale.
FixIsFresh_Strict(t) == \E f \in lastFix : t - f < FreshnessTimeout

\* time.Since(s.lastFix) <= s.timeout
FixIsFresh(t) == \E f \in lastFix : t - f <= FreshnessTimeout

\* State.GPSStringForRecord: nil, "%f, %f" or "(%f, %f)" of the latest
\* position; the text is the sequence of its three parts.
GPSStringForRecord(t) ==
    IF ~useGPS \/ lastFix = {} THEN {}
    ELSE IF FixIsFresh(t)
       THEN {<<"", TheOne(latest), "">>}
       ELSE {<<"(", TheOne(latest), ")">>}

\* State.FixSnapshot: (position, ok, cached).
FixSnapshot(t) ==
    IF ~useGPS \/ lastFix = {}
       THEN [pos |-> {}, ok |-> FALSE, cached |-> FALSE]
       ELSE [pos |-> latest, ok |-> TRUE,
             cached |-> \E f \in lastFix : t - f > FreshnessTimeout]

\* State.IsFresh
IsFresh(t) == useGPS /\ lastFix # {} /\ FixIsFresh(t)

GpsTick ==
    /\ gticks < MaxGpsTicks
    /\ \E d \in GpsSteps : gclock' = gclock + d
    /\ gticks' = gticks + 1
    /\ UNCHANGED <<useGPS, latest, lastFix, lastPacket, scanningStarted,
                   activeCloser, rpc, connOpen, delivered, everDelivered,
                   everFixed, lastKick, fpc, deadline, fresult, gctxDone>>
    /\ UNCHANGED <<readerKind, activeKind, failedAt, sentence, obsVars>>
    /\ GpsUnchangedOthers

\* gpsState.SetScanningStarted(true) in StartContinuousScanAndConnectMulti.
SetScanningStarted ==
    /\ ~scanningStarted
    /\ scanningStarted' = TRUE
    /\ UNCHANGED <<gclock, gticks, useGPS, latest, lastFix, lastPacket,
                   activeCloser, rpc, connOpen, delivered, everDelivered,
                   everFixed, lastKick, fpc, deadline, fresult, gctxDone>>
    /\ UNCHANGED <<readerKind, activeKind, failedAt, sentence, obsVars>>
    /\ GpsUnchangedOthers

\* readGPSD / readSerial up to setActiveCloser: a failed dial or open
\* returns the error; a connection registers the closer, and
\* setActiveCloser stamps lastPacket with the time of the connection.
ReaderDial(ok) ==
    /\ rpc = "top" /\ ~gctxDone
    /\ IF ok
          THEN /\ activeCloser' = TRUE
               /\ activeKind' = readerKind
               /\ lastPacket' = {gclock}
               /\ connOpen' = TRUE
               /\ delivered' = 0
               /\ rpc' = "read"
               /\ UNCHANGED failedAt
          ELSE /\ rpc' = "backoff"
               /\ failedAt' = {gclock}
               /\ UNCHANGED <<activeCloser, activeKind, lastPacket,
                              connOpen, delivered>>
    /\ UNCHANGED <<gclock, gticks, useGPS, latest, lastFix, scanningStarted,
                   everDelivered, everFixed, lastKick, fpc, deadline,
                   fresult, gctxDone>>
    /\ UNCHANGED <<readerKind, sentence, obsVars>>
    /\ GpsUnchangedOthers

\* One line from the reader: updatePacket, and updateFix when the line
\* carries a usable position.
ReaderPacket(pos) ==
    /\ rpc = "read" /\ connOpen /\ ~gctxDone
    /\ lastPacket' = {gclock}
    /\ delivered' = 1
    /\ everDelivered' = TRUE
    /\ IF pos # {}
          THEN latest' = pos /\ lastFix' = {gclock} /\ everFixed' = TRUE
          ELSE UNCHANGED <<latest, lastFix, everFixed>>
    /\ UNCHANGED <<gclock, gticks, useGPS, scanningStarted, activeCloser,
                   rpc, connOpen, lastKick, fpc, deadline, fresult, gctxDone>>
    /\ UNCHANGED <<readerKind, activeKind, failedAt, sentence, obsVars>>
    /\ GpsUnchangedOthers

\* The read loop ends (closed connection, remote close, read error, done
\* context): the deferred clearActiveCloser and Close run and the error
\* goes back to the reader loop.
ReaderEnd ==
    /\ rpc = "read"
    /\ activeCloser' = FALSE
    /\ activeKind' = ""
    /\ connOpen' = FALSE
    /\ rpc' = "backoff"
    /\ failedAt' = {gclock}
    /\ UNCHANGED <<gclock, gticks, useGPS, latest, lastFix, lastPacket,
                   scanningStarted, delivered, everDelivered, everFixed,
                   lastKick, fpc, deadline, fresult, gctxDone>>
    /\ UNCHANGED <<readerKind, sentence, obsVars>>
    /\ GpsUnchangedOthers

RetryDue_Immediate(t) == TRUE

\* The timer of time.After(2 * time.Second) has fired.
RetryDue(t) == \E f \in failedAt : t - f >= RetryWait

\* select { case <-ctx.Done(): return; case <-time.After(2 s): }
ReaderRetry ==
    /\ rpc = "backoff"
    /\ \/ gctxDone /\ rpc' = "exited"
       \/ RetryDue(gclock) /\ rpc' = "top"
    /\ failedAt' = {}
    /\ UNCHANGED <<gclock, gticks, useGPS, latest, lastFix, lastPacket,
                   scanningStarted, activeCloser, connOpen, delivered,
                   everDelivered, everFixed, lastKick, fpc, deadline,
                   fresult, gctxDone>>
    /\ UNCHANGED <<readerKind, activeKind, sentence, obsVars>>
    /\ GpsUnchangedOthers

\* Top of the reader loop with a done context.
ReaderCtxDone ==
    /\ rpc = "top" /\ gctxDone
    /\ rpc' = "exited"
    /\ UNCHANGED <<gclock, gticks, useGPS, latest, lastFix, lastPacket,
                   scanningStarted, activeCloser, connOpen, delivered,
                   everDelivered, everFixed, lastKick, fpc, deadline,
                   fresult, gctxDone>>
    /\ UNCHANGED <<readerKind, activeKind, failedAt, sentence, obsVars>>
    /\ GpsUnchangedOthers

\* The tests of one watchdog tick, in the order of the code.
WatchdogKicks(t) ==
    /\ useGPS /\ scanningStarted
    /\ activeCloser
    /\ lastPacket # {}
    /\ \E lp \in lastPacket : t - lp > NoPacketTimeout
    /\ \A k \in lastKick : t - k >= MinReconnectPeriod

\* One tick of watchdogLoop that ends in closer().
WatchdogKick ==
    /\ useGPS /\ ~gctxDone
    /\ WatchdogKicks(gclock)
    /\ lastKick' = {gclock}
    /\ connOpen' = FALSE
    /\ UNCHANGED <<gclock, gticks, useGPS, latest, lastFix, lastPacket,
                   scanningStarted, activeCloser, rpc, delivered,
                   everDelivered, everFixed, fpc, deadline, fresult,
                   gctxDone>>
    /\ UNCHANGED <<readerKind, activeKind, failedAt, sentence, obsVars>>
    /\ GpsUnchangedOthers

\* WaitForFirstPacket, entry: true at once without GPS, else the deadline.
WaitStart ==
    /\ fpc = "idle"
    /\ IF ~useGPS
          THEN fresult' = "true" /\ fpc' = "done" /\ UNCHANGED deadline
          ELSE /\ deadline' = gclock + FirstPacketTimeout
               /\ fpc' = "waiting"
               /\ UNCHANGED fresult
    /\ UNCHANGED <<gclock, gticks, useGPS, latest, lastFix, lastPacket,
                   scanningStarted, activeCloser, rpc, connOpen, delivered,
                   everDelivered, everFixed, lastKick, gctxDone>>
    /\ UNCHANGED <<readerKind, activeKind, failedAt, sentence, obsVars>>
    /\ GpsUnchangedOthers

\* WaitForFirstPacket, case <-t.C: a tick that returns.
WaitPoll ==
    /\ fpc = "waiting"
    /\ IF lastPacket # {}
          THEN fresult' = "true"
          ELSE gclock > deadline /\ fresult' = "false"
    /\ fpc' = "done"
    /\ UNCHANGED <<gclock, gticks, useGPS, latest, lastFix, lastPacket,
                   scanningStarted, activeCloser, rpc, connOpen, delivered,
                   everDelivered, everFixed, lastKick, deadline, gctxDone>>
    /\ UNCHANGED <<readerKind, activeKind, failedAt, sentence, obsVars>>
    /\ GpsUnchangedOthers

\* WaitForFirstPacket, case <-ctx.Done()
WaitCtxDone ==
    /\ fpc = "waiting" /\ gctxDone
    /\ fresult' = "false"
    /\ fpc' = "done"
    /\ UNCHANGED <<gclock, gticks, useGPS, latest, lastFix, lastPacket,
                   scanningStarted, activeCloser, rpc, connOpen, delivered,
                   everDelivered, everFixed, lastKick, deadline, gctxDone>>
    /\ UNCHANGED <<readerKind, activeKind, failedAt, sentence, obsVars>>
    /\ GpsUnchangedOthers

\* The context of main ends.
GpsCancel ==
    /\ ~gctxDone
    /\ gctxDone' = TRUE
    /\ UNCHANGED <<gclock, gticks, useGPS, latest, lastFix, lastPacket,
                   scanningStarted, activeCloser, rpc, connOpen, delivered,
                   everDelivered, everFixed, lastKick, fpc, deadline,
                   fresult>>
    /\ UNCHANGED <<readerKind, activeKind, failedAt, sentence, obsVars>>
    /\ GpsUnchangedOthers

\* NewState, then State.Start when GPS is enabled (without GPS no
\* goroutine is started).
InitGps ==
    /\ gclock = 0 /\ gticks = 0
    /\ useGPS \in BOOLEAN
    /\ latest = {} /\ lastFix = {} /\ lastPacket = {}
    /\ scanningStarted = FALSE /\ activeCloser = FALSE
    /\ rpc = IF useGPS THEN "top" ELSE "off"
    /\ connOpen = FALSE /\ delivered = 0 /\ everDelivered = FALSE
    /\ everFixed = FALSE /\ lastKick = {}
    /\ fpc = "idle" /\ deadline = 0 /\ fresult = "none"
    /\ gctxDone = FALSE
    /\ readerKind \in (IF useGPS THEN {"gpsd", "serial"} ELSE {""})
    /\ activeKind = "" /\ failedAt = {} /\ sentence = NoSentence
    /\ ObsIdle
    /\ LoopIdle /\ SupIdle /\ SplitIdle /\ DbIdle /\ WriteIdle /\ ExtIdle

NextGps ==
    \/ GpsTick
    \/ SetScanningStarted
    \/ \E ok \in BOOLEAN : ReaderDial(ok)
    \/ \E pos \in Positions : ReaderPacket(pos)
    \/ ReaderEnd
    \/ ReaderRetry
    \/ ReaderCtxDone
    \/ WatchdogKick
    \/ WaitStart
    \/ WaitPoll
    \/ WaitCtxDone
    \/ GpsCancel

SpecGps == InitGps /\ [][NextGps]_vars


\* The three forms of the record text for the latest position.
PlainText == {<<"", TheOne(latest), "">>}
ParenText == {<<"(", TheOne(latest), ")">>}

\* C18: string_for_record returns nothing iff no fix was ever received or
\* GPS is disabled, the plain form iff the last fix is at most
\* freshness_timeout old and the parenthesised form iff it is older;
\* fix_snapshot reports ok iff a fix was ever received, cached exactly in
\* the parenthesised case, and is_fresh is true exactly in the plain case.
C18_RecordTextFollowsFixAge ==
    LET text == GPSStringForRecord(gclock)
        snap == FixSnapshot(gclock)
        had  == useGPS /\ everFixed
    IN  /\ (text = {}) <=> ~had
        /\ had => latest # {} /\ lastFix # {}
        /\ (had /\ text = PlainText)
              <=> (had /\ \A f \in lastFix : gclock - f <= FreshnessTimeout)
        /\ (had /\ text = ParenText)
              <=> (had /\ \A f \in lastFix : gclock - f > FreshnessTimeout)
        /\ snap.ok <=> everFixed
        /\ snap.ok => snap.pos = latest
        /\ snap.cached <=> (had /\ text = ParenText)
        /\ IsFresh(gclock) <=> (had /\ text = PlainText)

\* A fix older than freshness_timeout is read: parenthesised text, cached
\* snapshot, not fresh.
C18_Witness ==
    /\ useGPS /\ everFixed
    /\ \E f \in lastFix : gclock - f > FreshnessTimeout
    /\ GPSStringForRecord(gclock) = ParenText
    /\ FixSnapshot(gclock).cached
    /\ ~IsFresh(gclock)

\* C19: the watchdog force-closes the active reader at a tick only if
\* scanning has started, a reader is active, at least one packet has
\* actually been received, the last packet is more than 12 s old and the
\* previous kick, if any, was at least 10 s earlier.
C19_KickOnlyAfterSilence ==
    [][lastKick' # lastKick =>
          /\ scanningStarted
          /\ activeCloser
          /\ everDelivered
          /\ \E lp \in lastPacket : gclock - lp > NoPacketTimeout
          /\ \A k \in lastKick : gclock - k >= MinReconnectPeriod]_vars

\* C20: wait_for_first_packet returns true only when a GPS packet was
\* received from the reader; establishing the reader connection is not a
\* packet.
C20_TrueOnlyAfterPacket ==
    (useGPS /\ fresult = "true") => everDelivered


\* The reader loop leaves a position only in the ways the code allows.
ReaderMoves ==
    /\ (rpc = "read" /\ rpc' # "read")
          => (rpc' = "backoff" /\ failedAt' = {gclock})
    /\ (rpc = "top" /\ rpc' # "top")
          => /\ rpc' \in {"read", "backoff", "exited"}
             /\ rpc' = "backoff" => failedAt' = {gclock}
    /\ (rpc = "backoff" /\ rpc' # "backoff") => rpc' \in {"top", "exited"}
    /\ (rpc = "backoff" /\ rpc' = "top")
          => \E f \in failedAt : gclock - f >= RetryWait
    /\ (rpc # "exited" /\ rpc' = "exited") => gctxDone

Coordinates == {0, 1}

\* RMC and GLL carry Validity (A = valid), GGA FixQuality ("0" = invalid),
\* GNS a mode indicator (N = no fix); GSV is another sentence, "bad" a line
\* nmea.Parse rejects and "text" a line without the $ or ! prefix.
Sentences ==
    [type : {"RMC", "GLL"}, flag : {"A", "a", "V"}, lat : Coordinates,
     lon : Coordinates]
    \cup [type : {"GGA"}, flag : {"0", "1"}, lat : Coordinates,
          lon : Coordinates]
    \cup [type : {"GNS"}, flag : {"N", "A"}, lat : Coordinates,
          lon : Coordinates]
    \cup [type : {"GSV", "bad", "text"}, flag : {""}, lat : {0}, lon : {0}]

\* strings.EqualFold(v.Validity, "A")
EqualFoldA(f) == f \in {"A", "a"}

\* The switch of readSerial: the sentence leads to updateFix.
UpdatesFix(l) ==
    CASE l.type = "RMC" -> EqualFoldA(l.flag)
      [] l.type = "GGA" -> l.flag # "0" /\ (l.lat # 0 \/ l.lon # 0)
      [] l.type = "GLL" -> EqualFoldA(l.flag)
      [] l.type = "GNS" -> l.lat # 0 \/ l.lon # 0
      [] OTHER -> FALSE

\* One line of scanner.Scan() in readSerial.
SerialLine(l) ==
    /\ rpc = "read" /\ connOpen /\ ~gctxDone
    /\ readerKind = "serial"
    /\ sentence' = l
    /\ IF l.type = "text"
          THEN UNCHANGED <<lastPacket, delivered, everDelivered, latest,
                           lastFix, everFixed>>
          ELSE /\ lastPacket' = {gclock}
               /\ delivered' = 1
               /\ everDelivered' = TRUE
               /\ IF UpdatesFix(l)
                     THEN /\ latest' = {<<l.lat, l.lon>>}
                          /\ lastFix' = {gclock}
                          /\ everFixed' = TRUE
                     ELSE UNCHANGED <<latest, lastFix, everFixed>>
    /\ UNCHANGED <<gclock, gticks, useGPS, scanningStarted, activeCloser,
                   rpc, connOpen, lastKick, fpc, deadline, fresult, gctxDone>>
    /\ UNCHANGED <<readerKind, activeKind, failedAt, obsVars>>
    /\ GpsUnchangedOthers

InitSerial == InitGps /\ useGPS /\ readerKind = "serial"

NextSerial ==
    \/ GpsTick
    \/ \E ok \in BOOLEAN : ReaderDial(ok)
    \/ \E l \in Sentences : SerialLine(l)
    \/ ReaderEnd
    \/ ReaderRetry

SpecSerial == InitSerial /\ [][NextSerial]_vars

\* The flag of a position sentence is good.
GoodFlag(l) ==
    CASE l.type \in {"RMC", "GLL"} -> l.flag \in {"A", "a"}
      [] l.type = "GGA" -> l.flag # "0"
      [] l.type = "GNS" -> l.flag # "N"
      [] OTHER -> FALSE

\* A step of readSerial on one line.
LineStep == rpc = "read" /\ rpc' = "read" /\ gclock' = gclock

\* C35: the serial reader changes the stored fix or last_fix_at on a line
\* only if the line is an RMC, GGA, GLL or GNS sentence whose flag is good
\* and whose latitude and longitude are not both zero; every sentence
\* counts as a packet.
C35_FixOnlyFromGoodNonZero ==
    [][LineStep =>
          /\ (latest' # latest \/ lastFix' # lastFix)
                => /\ GoodFlag(sentence')
                   /\ sentence'.lat # 0 \/ sentence'.lon # 0
          /\ sentence'.type # "text" => lastPacket' = {gclock}]_vars


(***************************************************************************)
(* SpecObs: the three GPS reads the discovery loop makes for one sighting  *)
(* (GPSStringForRecord, FixSnapshot, Source), each under its own RLock,    *)
(* next to the gpsd reader and the clock.                                  *)
(***************************************************************************)
\* gpsStr := gpsState.GPSStringForRecord()
ObsText ==
    /\ opc = "idle"
    /\ obsText' = GPSStringForRecord(gclock)
    /\ obsKind' = activeKind
    /\ opc' = "text"
    /\ UNCHANGED <<obsSnap, obsSource>>
    /\ UNCHANGED <<gclock, gticks, useGPS, latest, lastFix, lastPacket,
                   scanningStarted, activeCloser, rpc, connOpen, delivered,
                   everDelivered, everFixed, lastKick, fpc, deadline,
                   fresult, gctxDone, readerKind, activeKind, failedAt,
                   sentence>>
    /\ GpsUnchangedOthers

\* gLat, gLon, gOK, gCached := gpsState.FixSnapshot()
ObsSnap ==
    /\ opc = "text"
    /\ obsSnap' = FixSnapshot(gclock)
    /\ opc' = "snap"
    /\ UNCHANGED <<obsText, obsSource, obsKind>>
    /\ UNCHANGED <<gclock, gticks, useGPS, latest, lastFix, lastPacket,
                   scanningStarted, activeCloser, rpc, connOpen, delivered,
                   everDelivered, everFixed, lastKick, fpc, deadline,
                   fresult, gctxDone, readerKind, activeKind, failedAt,
                   sentence>>
    /\ GpsUnchangedOthers

\* gpsState.Source()
ObsSource ==
    /\ opc = "snap"
    /\ obsSource' = activeKind
    /\ opc' = "done"
    /\ UNCHANGED <<obsText, obsSnap, obsKind>>
    /\ UNCHANGED <<gclock, gticks, useGPS, latest, lastFix, lastPacket,
                   scanningStarted, activeCloser, rpc, connOpen, delivered,
                   everDelivered, everFixed, lastKick, fpc, deadline,
                   fresult, gctxDone, readerKind, activeKind, failedAt,
                   sentence>>
    /\ GpsUnchangedOthers

\* The sighting is written and the loop goes on to its next sighting.
ObsNext ==
    /\ opc = "done"
    /\ opc' = "idle" /\ obsText' = {} /\ obsSnap' = NoSnap
    /\ obsSource' = "" /\ obsKind' = ""
    /\ UNCHANGED <<gclock, gticks, useGPS, latest, lastFix, lastPacket,
                   scanningStarted, activeCloser, rpc, connOpen, delivered,
                   everDelivered, everFixed, lastKick, fpc, deadline,
                   fresult, gctxDone, readerKind, activeKind, failedAt,
                   sentence>>
    /\ GpsUnchangedOthers

InitObs == InitGps /\ useGPS /\ readerKind = "gpsd"

NextObs ==
    \/ GpsTick
    \/ \E ok \in BOOLEAN : ReaderDial(ok)
    \/ \E pos \in Positions : ReaderPacket(pos)
    \/ ReaderEnd
    \/ ReaderRetry
    \/ ObsText
    \/ ObsSnap
    \/ ObsSource
    \/ ObsNext

SpecObs == InitObs /\ [][NextObs]_vars

\* C37: the GPS text, the coordinates, the cached flag and the source of
\* one observation come from one GPS state: there is a text exactly when
\* there are coordinates, the text is that of the coordinates, it is the
\* parenthesised form exactly when the cached flag is set, and the source
\* is the reader kind of the state the text was read from.
C37_ObservationFromOneState ==
    opc = "done" =>
       /\ obsText = {} <=> ~obsSnap.ok
       /\ \A t \in obsText :
             /\ obsSnap.pos = {t[2]}
             /\ t[1] = "(" <=> obsSnap.cached
       /\ obsSource = obsKind


(***************************************************************************)
(* SpecWrite: the store calls of runBlueZDiscoveryLoop, one discovery loop *)
(* run.  Each sighting of a snapshot is one step; the calls it issues are  *)
(* listed in issued, in the order of the code.  The store's errors are     *)
(* dropped by the loop; whether the store fails at a sighting is an input. *)
(* Within an iteration the loop reads no clock but now.                    *)
(***************************************************************************)
MaxWriteTicks == 3

\* defaultBlueZConfig
DeviceUpdateMinPeriod == 10
AdvInsertMinPeriod == 30
ClassicHistMinPeriod == 30
\* now.Sub(t0) >= 10*time.Second, the GPS refresh inside the throttle
GPSRefreshPeriod == 10

WriteSteps == {7, 23}

\* gpsState.GPSStringForRecord() at a sighting: nil or a position text.
GPSStrings == {{}, {"A"}, {"B"}}

\* DetectTypedDevice at a sighting: "" or the name of a pattern.
Markers == {"", "cokeon"}

\* The id SQLite gives the advertisement row of a sighting (LastInsertId).
AdvRowID == 5

\* The snapshot entry of a key in this run: AA is a Low Energy device, BB
\* a BR/EDR device.
WriteBD(key) ==
    [Type |-> IF normalizeMAC(key) = "BB" THEN {"bredr"} ELSE {"le"},
     Class |-> {}, LegacyPairing |-> {}, RSSI |-> {ConnectRSSIMin}]

WriteUnchangedOthers ==
    UNCHANGED <<loopVars, workerVars, storeVars, jobVars, supVars,
                splitVars, dbVars, gpsVars, extVars>>

Issues(calls, name) == \E i \in 1..Len(calls) : calls[i] = name

DeviceThrottled_Short(m, t) ==
    m \in DOMAIN lastDeviceWrite /\ t - lastDeviceWrite[m] < 7

\* last, ok := lastDeviceWrite[mac]; ok && now.Sub(last) < DeviceUpdateMinPeriod
DeviceThrottled(m, t) ==
    m \in DOMAIN lastDeviceWrite
       /\ t - lastDeviceWrite[m] < DeviceUpdateMinPeriod

\* need, in the throttled branch
NeedGPS(m, gpsText, t) ==
    \/ m \notin DOMAIN lastGPSVal
    \/ lastGPSVal[m] # gpsText
    \/ m \notin DOMAIN lastGPSWrite
    \/ t - lastGPSWrite[m] >= GPSRefreshPeriod

\* prev, ok := lastMarked[mac]; !ok || prev != mt
MarkerChanged(m, mt) == m \notin DOMAIN lastMarked \/ lastMarked[m] # mt

\* The call of store.UpdateDeviceMarkedType stands after the if that
\* compares with lastMarked, not inside it: it is made for every
\* non-empty marker, in the throttled and in the full branch alike.
MarkerUpdate(m, mt) == mt # ""

AdvDue_Short(m, t) ==
    m \notin DOMAIN lastAdvWrite \/ t - lastAdvWrite[m] >= 23

AdvDue(m, t) ==
    m \notin DOMAIN lastAdvWrite \/ t - lastAdvWrite[m] >= AdvInsertMinPeriod

Stamped_OnSuccess(due, ok) == due /\ ok

\* lastDeviceWrite[mac] = now, lastAdvWrite[mac] = now and
\* lastClassicHist[mac] = now stand before the store call they throttle,
\* and nothing reads that call's error: the timestamp is set when the write
\* is due, whatever the store returns.
Stamped(due, ok) == due

\* Time passes between two iterations.
WriteTick ==
    /\ xpc = "wait"
    /\ xticks < MaxWriteTicks
    /\ \E d \in WriteSteps : xclock' = xclock + d
    /\ xticks' = xticks + 1
    /\ UNCHANGED <<xpc, xnow, xtodo, lastDeviceWrite, lastAdvWrite,
                   lastGPSVal, lastGPSWrite, issued, sighted, savedAt,
                   lastMarked, lastClassicHist,
                   entry, familySkip, advID, linkedID, storeErr>>
    /\ WriteUnchangedOthers

\* case <-ticker.C, a snapshot with devices, now := time.Now().  A failed
\* or empty snapshot goes back to the ticker and changes nothing.
WriteSnapshot(snap) ==
    /\ xpc = "wait"
    /\ xclock - xnow >= SnapshotInterval
    /\ snap # {}
    /\ xnow' = xclock
    /\ xtodo' = snap
    /\ xpc' = "visit"
    /\ UNCHANGED <<xclock, xticks, lastDeviceWrite, lastAdvWrite, lastGPSVal,
                   lastGPSWrite, issued, sighted, savedAt, lastMarked, lastClassicHist,
                   entry, familySkip, advID, linkedID, storeErr>>
    /\ WriteUnchangedOthers

\* lastClassicHist[mac] absent or ClassicHistMinPeriod old
ClassicDue(m, t) ==
    m \notin DOMAIN lastClassicHist
       \/ t - lastClassicHist[m] >= ClassicHistMinPeriod

\* id, ierr := store.InsertAdvertisement(...): the id of the new row, or 0
\* with an error.
InsertedID(ok) == IF ok THEN AdvRowID ELSE 0

\* The body of "for mac, bd := range snap" for one key, from the throttle
\* of the full write to "if devType == "classic" { continue }".  storeOk
\* is the store at this sighting: when it is FALSE every store call of the
\* sighting returns an error, which the loop drops.
WriteVisit(key, d, gpsStr, markedTypeStr, storeOk) ==
    /\ xpc = "visit"
    /\ key \in xtodo
    /\ LET m         == normalizeMAC(key)
           gpsText   == IF gpsStr = {} THEN ""
                                       ELSE TrimSpace(TheOne(gpsStr))
           throttled == DeviceThrottled(m, xnow)
           gpsWrite  == /\ gpsStr # {} /\ gpsText # ""
                        /\ throttled => NeedGPS(m, gpsText, xnow)
           advDue    == AdvDue(m, xnow)
           id        == InsertedID(storeOk)
           classic   == isClassicLikely(d)
           histDue   == classic /\ ClassicDue(m, xnow)
           gpsCalls  == IF gpsWrite
                           THEN <<"UpdateDeviceGPS",
                                  "RecordDeviceGPSHistoryIfChanged">>
                           ELSE <<>>
           saveCalls == IF throttled THEN <<>> ELSE <<"SaveDevice">>
           mt        == TrimSpace(markedTypeStr)
           markCalls == IF MarkerUpdate(m, mt)
                           THEN <<"UpdateDeviceMarkedType">>
                           ELSE <<>>
           advCalls  == IF ~advDue THEN <<>>
                        ELSE IF id > 0
                           THEN <<"InsertAdvertisement",
                                  "UpdateDeviceLastAdvID">>
                           ELSE <<"InsertAdvertisement">>
           histCalls == IF histDue THEN <<"InsertClassicDiscovery">>
                                   ELSE <<>>
           infoCalls == IF classic THEN <<"UpsertClassicInfo">> ELSE <<>>
       IN  IF m = ""
              THEN UNCHANGED <<lastDeviceWrite, lastAdvWrite, lastGPSVal,
                               lastGPSWrite, issued, sighted, savedAt,
                               lastMarked, lastClassicHist,
                               entry, familySkip, advID, linkedID, storeErr>>
              ELSE /\ lastDeviceWrite' =
                         IF Stamped(~throttled, storeOk)
                            THEN MapSet(lastDeviceWrite, m, xnow)
                            ELSE lastDeviceWrite
                   /\ lastGPSVal' =
                         IF gpsWrite THEN MapSet(lastGPSVal, m, gpsText)
                                     ELSE lastGPSVal
                   /\ lastGPSWrite' =
                         IF gpsWrite THEN MapSet(lastGPSWrite, m, xnow)
                                     ELSE lastGPSWrite
                   /\ lastAdvWrite' =
                         IF Stamped(advDue, storeOk)
                            THEN MapSet(lastAdvWrite, m, xnow)
                            ELSE lastAdvWrite
                   /\ lastClassicHist' =
                         IF Stamped(histDue, storeOk)
                            THEN MapSet(lastClassicHist, m, xnow)
                            ELSE lastClassicHist
                   /\ issued' = gpsCalls \o saveCalls \o markCalls
                                   \o advCalls \o histCalls \o infoCalls
                   /\ lastMarked' =
                         IF mt # "" /\ MarkerChanged(m, mt)
                            THEN MapSet(lastMarked, m, mt)
                            ELSE lastMarked
                   /\ sighted' = m
                   /\ savedAt' = IF throttled THEN savedAt
                                              ELSE MapSet(savedAt, m, xnow)
                   /\ entry' = d
                   /\ familySkip' = (bluezTypeToDeviceType(d) = "classic")
                   /\ advID' = IF advDue THEN id ELSE 0
                   /\ linkedID' = IF advDue /\ id > 0 THEN id ELSE 0
                   /\ storeErr' = ~storeOk
    /\ xtodo' = xtodo \ {key}
    /\ xpc' = IF xtodo' = {} THEN "wait" ELSE "visit"
    /\ UNCHANGED <<xnow, xclock, xticks>>
    /\ WriteUnchangedOthers

\* case <-ctx.Done(): return ctx.Err(), at the ticker or between two keys.
WriteCtxDone ==
    /\ xpc \in {"wait", "visit"}
    /\ xpc' = "exited"
    /\ UNCHANGED <<xnow, xclock, xticks, xtodo, lastDeviceWrite,
                   lastAdvWrite, lastGPSVal, lastGPSWrite, issued, sighted,
                   savedAt, lastMarked, lastClassicHist,
                   entry, familySkip, advID, linkedID, storeErr>>
    /\ WriteUnchangedOthers

\* Entry of the loop: empty maps, waiting for the first tick.
InitWrite ==
    /\ xpc = "wait" /\ xnow = 0 /\ xclock = 0 /\ xticks = 0 /\ xtodo = {}
    /\ lastDeviceWrite = <<>> /\ lastAdvWrite = <<>> /\ lastGPSVal = <<>>
    /\ lastGPSWrite = <<>> /\ issued = <<>> /\ sighted = NoMAC
    /\ savedAt = <<>> /\ lastMarked = <<>>
    /\ lastClassicHist = <<>> /\ entry = NoBD /\ familySkip = FALSE
    /\ advID = 0 /\ linkedID = 0 /\ storeErr = FALSE
    /\ LoopIdle /\ SupIdle /\ SplitIdle /\ DbIdle /\ GpsIdle /\ ExtIdle

NextWrite ==
    \/ WriteTick
    \/ \E snap \in SUBSET MACs : WriteSnapshot(snap)
    \/ \E key \in MACs, gpsStr \in GPSStrings, markedTypeStr \in Markers,
          storeOk \in BOOLEAN :
             WriteVisit(key, WriteBD(key), gpsStr, markedTypeStr, storeOk)
    \/ WriteCtxDone

SpecWrite == InitWrite /\ [][NextWrite]_vars

\* A step that visits one key of the snapshot.
VisitStep == xpc = "visit" /\ xtodo' # xtodo

\* C14: within one discovery loop run, two full save_device upserts of one
\* MAC are at least device_update_min_period (10 s) apart by the loop's
\* sighting time (now): a sighting less than 10 s after the MAC's last full
\* write never issues save_device.
C14_FullSavesTenSecondsApart ==
    [][\A m \in MACs :
          (VisitStep /\ sighted' = m /\ Issues(issued', "SaveDevice")
              /\ m \in DOMAIN savedAt)
             => xnow - savedAt[m] >= DeviceUpdateMinPeriod]_vars

\* AA was saved in full, and its sighting 7 s later issued no save_device.
C14_Witness ==
    /\ sighted = "AA"
    /\ "AA" \in DOMAIN savedAt
    /\ xnow - savedAt["AA"] = 7
    /\ "AA" \notin xtodo
    /\ ~Issues(issued, "SaveDevice")

\* A sighting of m inside the throttle window of its full writes.
ThrottledSighting(m) ==
    VisitStep /\ sighted' = m /\ DeviceThrottled(m, xnow)

\* The GPS text differs from lastGPSVal, or lastGPSWrite is 10 s old.
GPSChangedOrStale(m) ==
    \/ m \notin DOMAIN lastGPSVal
    \/ lastGPSVal'[m] # lastGPSVal[m]
    \/ m \notin DOMAIN lastGPSWrite
    \/ xnow - lastGPSWrite[m] >= GPSRefreshPeriod

\* The marker of the sighting differs from lastMarked.
MarkerDiffers(m) ==
    /\ m \in DOMAIN lastMarked'
    /\ m \notin DOMAIN lastMarked \/ lastMarked'[m] # lastMarked[m]

\* The store calls that write Device columns other than gps and type.
OtherFieldCalls == {"SaveDevice", "UpdateDeviceLastAdvID"}

\* C30: a sighting inside the throttle window issues a GPS update only
\* when there is a GPS text that differs from lastGPSVal or lastGPSWrite
\* is at least 10 s old, a marker-type update only when the marker is not
\* empty and differs from lastMarked, and no call that writes another
\* Device field.
C30_ThrottledSightingCheapOnly ==
    [][\A m \in MACs :
          ThrottledSighting(m) =>
             /\ Issues(issued', "UpdateDeviceGPS")
                   => m \in DOMAIN lastGPSVal' /\ GPSChangedOrStale(m)
             /\ Issues(issued', "UpdateDeviceMarkedType") => MarkerDiffers(m)
             /\ \A c \in OtherFieldCalls : ~Issues(issued', c)]_vars


\* Every call named a stands before every call named b in calls.
Precedes(calls, a, b) ==
    \A i, j \in 1..Len(calls) : (calls[i] = a /\ calls[j] = b) => i < j

\* The calls of a sighting that write the GPS value, the GPS history row
\* and the marker type.
AfterSaveCalls ==
    {"UpdateDeviceGPS", "RecordDeviceGPSHistoryIfChanged",
     "UpdateDeviceMarkedType"}

\* C31: on a full write the save_device upsert is issued first, and the
\* GPS update, the GPS history row and the marker type of that sighting
\* only after it.
C31_SaveBeforeGPSAndMarker ==
    [][(VisitStep /\ Issues(issued', "SaveDevice"))
          => \A c \in AfterSaveCalls : Precedes(issued', "SaveDevice", c)]_vars

\* C32: within one discovery loop run an advertisement insert of a MAC is
\* at least adv_insert_min_period (30 s) after the MAC's previous one, the
\* first sighting of a MAC always inserts, and after a successful insert
\* UpdateDeviceLastAdvID is called with the id of the new row.
C32_AdvInsertsThirtySecondsApart ==
    [][\A m \in MACs :
          (VisitStep /\ sighted' = m) =>
             /\ (Issues(issued', "InsertAdvertisement")
                    /\ m \in DOMAIN lastAdvWrite)
                   => xnow - lastAdvWrite[m] >= AdvInsertMinPeriod
             /\ m \notin DOMAIN savedAt
                   => Issues(issued', "InsertAdvertisement")
             /\ advID' > 0
                   => /\ Issues(issued', "InsertAdvertisement")
                      /\ Issues(issued', "UpdateDeviceLastAdvID")
                      /\ linkedID' = advID'
             /\ linkedID' # 0 => linkedID' = advID']_vars

\* AA's advertisement was inserted and linked, and its sighting 23 s later
\* inserted none.
C32_Witness ==
    /\ sighted = "AA"
    /\ "AA" \notin xtodo
    /\ "AA" \in DOMAIN lastAdvWrite
    /\ xnow - lastAdvWrite["AA"] = 23
    /\ ~Issues(issued, "InsertAdvertisement")
    /\ advID = 0 /\ linkedID = 0

\* The calls a sighting of m issues when they are due, by the throttles
\* alone.
DueCalls(m, d) ==
    (IF DeviceThrottled(m, xnow) THEN {} ELSE {"SaveDevice"})
       \cup (IF AdvDue(m, xnow) THEN {"InsertAdvertisement"} ELSE {})
       \cup (IF isClassicLikely(d) /\ ClassicDue(m, xnow)
                THEN {"InsertClassicDiscovery"} ELSE {})
       \cup (IF isClassicLikely(d) THEN {"UpsertClassicInfo"} ELSE {})

\* C33: a sighting whose store calls fail does not end or block the loop:
\* every call that is due is still issued, the remaining keys of the
\* snapshot stay to be visited, and last_device_write, last_adv_write and
\* last_classic_hist are set to now exactly as for a successful write, so
\* the failed write is not repeated inside its throttle period.
C33_FailedWritesNeitherStopNorRetry ==
    [][\A m \in MACs :
          (VisitStep /\ sighted' = m /\ storeErr') =>
             /\ xpc' \in {"visit", "wait"}
             /\ xtodo' \subseteq xtodo /\ Cardinality(xtodo \ xtodo') = 1
             /\ xtodo' # {} => xpc' = "visit"
             /\ \A c \in DueCalls(m, entry') : Issues(issued', c)
             /\ ~DeviceThrottled(m, xnow)
                   => (m \in DOMAIN lastDeviceWrite'
                          /\ lastDeviceWrite'[m] = xnow)
             /\ AdvDue(m, xnow)
                   => (m \in DOMAIN lastAdvWrite'
                          /\ lastAdvWrite'[m] = xnow)
             /\ (isClassicLikely(entry') /\ ClassicDue(m, xnow))
                   => (m \in DOMAIN lastClassicHist'
                          /\ lastClassicHist'[m] = xnow)
             /\ DeviceThrottled(m, xnow) => ~Issues(issued', "SaveDevice")
             /\ ~AdvDue(m, xnow) => ~Issues(issued', "InsertAdvertisement")
             /\ ~ClassicDue(m, xnow)
                   => ~Issues(issued', "InsertClassicDiscovery")]_vars

\* Every store call of BB's first sighting failed (no advertisement id
\* came back): all the due calls were issued, the three timestamps are set
\* to now all the same, and AA is still to be visited.
C33_Witness ==
    /\ sighted = "BB"
    /\ storeErr
    /\ xpc = "visit" /\ xtodo = {"AA"}
    /\ issued = <<"SaveDevice", "InsertAdvertisement",
                  "InsertClassicDiscovery", "UpsertClassicInfo">>
    /\ advID = 0 /\ linkedID = 0
    /\ lastDeviceWrite = [x \in {"BB"} |-> xnow]
    /\ lastAdvWrite = [x \in {"BB"} |-> xnow]
    /\ lastClassicHist = [x \in {"BB"} |-> xnow]


(***************************************************************************)
(* SpecClassic: the same loop body for one key whose snapshot entry takes  *)
(* every combination of Type, Class and LegacyPairing, without GPS text    *)
(* and marker.                                                             *)
(***************************************************************************)
\* Type as BlueZ or a caller may spell it, nil included.
TypeInputs == {{}, {"le"}, {"LE "}, {"bredr"}, {" BREDR"}, {"dual"},
               {"Dual"}, {"unknown"}}
ClassInputs == {{}, {0}, {7936}}
LegacyInputs == {{}, {FALSE}, {TRUE}}

ClassicBDs ==
    [Type : TypeInputs, Class : ClassInputs, LegacyPairing : LegacyInputs,
     RSSI : {{ConnectRSSIMin}}]

NextClassic ==
    \/ WriteTick
    \/ WriteSnapshot({"BB"})
    \/ \E d \in ClassicBDs : WriteVisit("BB", d, {}, "", TRUE)
    \/ WriteCtxDone

SpecClassic == InitWrite /\ [][NextClassic]_vars

\* Type is bredr or dual, or Class is non-zero, or LegacyPairing is set.
ClassicAsStated(d) ==
    \/ TypeOf(d) = {"bredr"} \/ TypeOf(d) = {"dual"}
    \/ d.Class \notin {{}, {0}}
    \/ d.LegacyPairing = {TRUE}

\* The same, where Class and LegacyPairing count only for an entry whose
\* Type is not le.
ClassicUnlessLE(d) ==
    \/ TypeOf(d) = {"bredr"} \/ TypeOf(d) = {"dual"}
    \/ /\ TypeOf(d) # {"le"}
       /\ d.Class \notin {{}, {0}} \/ d.LegacyPairing = {TRUE}

\* The family of an entry is classic: Type bredr, or a Type other than le
\* and dual with a non-zero Class or LegacyPairing set.
FamilyClassic(d) ==
    \/ TypeOf(d) = {"bredr"}
    \/ /\ TypeOf(d) \notin {{"le"}, {"dual"}}
       /\ d.Class \notin {{}, {0}} \/ d.LegacyPairing = {TRUE}

\* The classic writes and the family skip of a sighting follow likely(d).
ClassicWritesFollow(likely) ==
    VisitStep =>
       /\ Issues(issued', "UpsertClassicInfo") <=> likely
       /\ Issues(issued', "InsertClassicDiscovery")
             <=> (likely /\ ClassicDue(sighted', xnow))
       /\ familySkip' <=> FamilyClassic(entry')

MaxFileTypes == 2

\* strings.ToLower(strings.TrimSpace(name))
LowerTrim(name) ==
    CASE name = "CokeOn" -> "cokeon"
      [] name = " cokeon" -> "cokeon"
      [] name = "cokeon" -> "cokeon"
      [] name = "Tag" -> "tag"
      [] name = "tag" -> "tag"
      [] OTHER -> ""

\* strings.ToUpper(strings.TrimSpace(uuid))
UpperTrim(uuid) ==
    CASE uuid = "fe01" -> "FE01"
      [] uuid = " FE01" -> "FE01"
      [] uuid = "FE01" -> "FE01"
      [] uuid = "fe02" -> "FE02"
      [] uuid = "FE02" -> "FE02"
      [] uuid = "u1" -> "U1"
      [] uuid = "U1" -> "U1"
      [] OTHER -> ""

\* The trimmed name decoded as standard base64: the number of bytes, or -1
\* when the name is empty, longer than 64, not matched by base64Re or not
\* decodable.
Base64Bytes(name) ==
    CASE name = "AAAAAAA=" -> 5
      [] name = " AAAAAAA= " -> 5
      [] name = "AAAA" -> 3
      [] OTHER -> -1

NoTrigger ==
    [ibCompany |-> 0, ibUUID |-> "", ibMajor |-> 0, ibMinor |-> 0,
     mfCompany |-> 0, mfLength |-> 0, nameB64 |-> FALSE]

Pattern(name, require, trigger) ==
    [name |-> name, require |-> require, ibCompany |-> trigger.ibCompany,
     ibUUID |-> trigger.ibUUID, ibMajor |-> trigger.ibMajor,
     ibMinor |-> trigger.ibMinor, mfCompany |-> trigger.mfCompany,
     mfLength |-> trigger.mfLength, nameB64 |-> trigger.nameB64]

\* Entries of a device_types.yaml as written in the file.
PatternInputs ==
    { Pattern("CokeOn", "fe01", [NoTrigger EXCEPT !.mfCompany = 1,
                                                   !.mfLength = 5]),
      Pattern(" cokeon", "", [NoTrigger EXCEPT !.nameB64 = TRUE]),
      Pattern("Tag", " FE01", [NoTrigger EXCEPT !.ibCompany = 76,
                                                 !.ibUUID = "u1",
                                                 !.ibMajor = 1,
                                                 !.ibMinor = 2]),
      Pattern("tag", "", [NoTrigger EXCEPT !.mfCompany = 1,
                                            !.mfLength = 3]),
      Pattern("", "", [NoTrigger EXCEPT !.mfCompany = 1, !.mfLength = 5]) }

TypeLists ==
    UNION { [1..n -> PatternInputs] : n \in 0..MaxFileTypes }

\* os.ReadFile and yaml.Unmarshal: {} when either fails.
FileInputs == {{}} \cup { {l} : l \in TypeLists }

NilPayload ==
    [len |-> 0, b0 |-> 0, b1 |-> 0, uuid |-> "", major |-> 0, minor |-> 0]
Bytes(n) == [NilPayload EXCEPT !.len = n]
IBeaconBytes(n, uuid, major, minor) ==
    [len |-> n, b0 |-> 2, b1 |-> 21, uuid |-> uuid, major |-> major,
     minor |-> minor]

\* []manufacturerEntry of a sighting, with DataHex already parsed
\* (parseHexBytes gives no bytes for an empty or malformed DataHex).
MfgInputs ==
    { <<>>,
      <<[company |-> 1, payload |-> Bytes(5)]>>,
      <<[company |-> 1, payload |-> Bytes(3)],
        [company |-> 1, payload |-> Bytes(5)]>>,
      <<[company |-> 1, payload |-> NilPayload],
        [company |-> 1, payload |-> Bytes(5)]>>,
      <<[company |-> 76, payload |-> IBeaconBytes(23, "U1", 1, 2)]>>,
      <<[company |-> 76, payload |-> IBeaconBytes(23, "U1", 1, 3)]>>,
      <<[company |-> 76, payload |-> IBeaconBytes(22, "U1", 1, 2)]>> }

UUIDInputs == {{}, {"fe01"}, {"FE02"}}
NameInputs == {"", " AAAAAAA= ", "AAAA", "hello!"}

TypeUnchangedOthers ==
    UNCHANGED <<loopVars, workerVars, storeVars, jobVars, supVars,
                splitVars, dbVars, writeVars, gpsVars, lockVars, moreVars>>

\* idx: the position of each name of out.Types (the last one, were a name
\* there twice).
IndexOf(types, name) ==
    LET at == {i \in 1..Len(types) : types[i].name = name}
    IN  IF at = {} THEN 0 ELSE CHOOSE i \in at : \A j \in at : j <= i

MergeOne_Append(types, t) ==
    LET name == LowerTrim(t.name)
    IN  IF name = "" THEN types
        ELSE Append(types, [t EXCEPT !.name = name])

\* One turn of "for _, t := range tmp.Types".
MergeOne(types, t) ==
    LET name == LowerTrim(t.name)
        j    == IndexOf(types, name)
    IN  IF name = "" THEN types
        ELSE IF j > 0 THEN [types EXCEPT ![j] = [t EXCEPT !.name = name]]
        ELSE Append(types, [t EXCEPT !.name = name])

RECURSIVE MergeAll(_, _)
MergeAll(types, tmp) ==
    IF tmp = <<>> THEN types
    ELSE MergeAll(MergeOne(types, Head(tmp)), Tail(tmp))

\* loadPatternsFile(path, out): the new out.Types.
loadPatternsFile(file, types) ==
    IF file = {} THEN types ELSE MergeAll(types, TheOne(file))

\* The "Normalize" loop of LoadDeviceTypePatterns.
NormalizeTypes(types) ==
    [i \in 1..Len(types) |->
        [types[i] EXCEPT !.name = LowerTrim(types[i].name),
                         !.require = UpperTrim(types[i].require),
                         !.ibUUID = UpperTrim(types[i].ibUUID)]]

RECURSIVE findManufacturerBytes(_, _)
findManufacturerBytes(mfg, companyID) ==
    IF mfg = <<>> THEN NilPayload
    ELSE IF Head(mfg).company = companyID /\ Head(mfg).payload.len > 0
       THEN Head(mfg).payload
       ELSE findManufacturerBytes(Tail(mfg), companyID)

\* svcSet
ServiceSet(uuids) == {UpperTrim(u) : u \in uuids} \ {""}

RequireMet_Ignored(p, obs) == TRUE

\* p.RequireServiceUUID is empty or in svcSet
RequireMet(p, obs) ==
    p.require = "" \/ UpperTrim(p.require) \in ServiceSet(obs.uuids)

\* 1) iBeacon inside Apple manufacturer data.
IBeaconMatches(p, obs) ==
    /\ p.ibUUID # "" /\ p.ibCompany > 0
    /\ LET payload == findManufacturerBytes(obs.mfg, p.ibCompany % 65536)
       IN  /\ payload.len >= 23 /\ payload.b0 = 2 /\ payload.b1 = 21
           /\ UpperTrim(payload.uuid) = UpperTrim(p.ibUUID)
           /\ payload.major = p.ibMajor /\ payload.minor = p.ibMinor

\* 2) Manufacturer company ID with fixed length.
ManufacturerMatches(p, obs) ==
    /\ p.mfCompany > 0 /\ p.mfLength > 0
    /\ findManufacturerBytes(obs.mfg, p.mfCompany % 65536).len = p.mfLength

\* 3) Name base64 -> 5 bytes.
NameMatches(p, obs) == p.nameB64 /\ Base64Bytes(obs.name) = 5

RECURSIVE DetectFrom(_, _)
DetectFrom(types, obs) ==
    IF types = <<>> THEN ""
    ELSE LET p == Head(types)
         IN  IF p.name = "" THEN DetectFrom(Tail(types), obs)
             ELSE IF ~RequireMet(p, obs) THEN DetectFrom(Tail(types), obs)
             ELSE IF IBeaconMatches(p, obs) THEN p.name
             ELSE IF ManufacturerMatches(p, obs) THEN p.name
             ELSE IF NameMatches(p, obs) THEN p.name
             ELSE DetectFrom(Tail(types), obs)

DetectTypedDevice(types, obs) ==
    IF Len(types) = 0 THEN "" ELSE DetectFrom(types, obs)

\* _ = loadPatternsFile(defPath, out)
LoadDefault ==
    /\ tpc = "default"
    /\ patterns' = loadPatternsFile(defaultFile, patterns)
    /\ tpc' = "custom"
    /\ UNCHANGED <<defaultFile, customFile, observed, detected>>
    /\ TypeUnchangedOthers

\* _ = loadPatternsFile(customPath, out)
LoadCustom ==
    /\ tpc = "custom"
    /\ patterns' = loadPatternsFile(customFile, patterns)
    /\ tpc' = "normalize"
    /\ UNCHANGED <<defaultFile, customFile, observed, detected>>
    /\ TypeUnchangedOthers

LoadNormalize ==
    /\ tpc = "normalize"
    /\ patterns' = NormalizeTypes(patterns)
    /\ tpc' = "loaded"
    /\ UNCHANGED <<defaultFile, customFile, observed, detected>>
    /\ TypeUnchangedOthers

\* markedTypeStr := DetectTypedDevice(patterns, bd.UUIDs, mfgEntries, bd.Name).
\* The result depends on the arguments only, so one call per behaviour
\* reaches every (catalog, arguments, result).
Detect(uuids, mfg, name) ==
    /\ tpc = "loaded"
    /\ detected = "none"
    /\ observed' = [uuids |-> uuids, mfg |-> mfg, name |-> name]
    /\ detected' = DetectTypedDevice(patterns, observed')
    /\ UNCHANGED <<tpc, defaultFile, customFile, patterns>>
    /\ TypeUnchangedOthers

InitTypes ==
    /\ tpc = "default"
    /\ defaultFile \in FileInputs
    /\ customFile \in FileInputs
    /\ patterns = <<>> /\ observed = <<>> /\ detected = "none"
    /\ LoopIdle /\ SupIdle /\ SplitIdle /\ DbIdle /\ WriteIdle /\ GpsIdle
    /\ LockIdle /\ MoreIdle

NextTypes ==
    \/ LoadDefault
    \/ LoadCustom
    \/ LoadNormalize
    \/ \E uuids \in UUIDInputs, mfg \in MfgInputs, name \in NameInputs :
          Detect(uuids, mfg, name)

SpecTypes == InitTypes /\ [][NextTypes]_vars


\* The lowercased names defined by a catalog file.
NamesOf(file) ==
    IF file = {} THEN {}
    ELSE {LowerTrim(TheOne(file)[i].name) : i \in 1..Len(TheOne(file))}
            \ {""}

\* A definition as it stands in the loaded catalog.
Normalized(t) ==
    [t EXCEPT !.name = LowerTrim(t.name), !.require = UpperTrim(t.require),
              !.ibUUID = UpperTrim(t.ibUUID)]

PositionsOf(file, name) ==
    {i \in 1..Len(TheOne(file)) : LowerTrim(TheOne(file)[i].name) = name}

\* The last definition of a name in a file, and the place of its first.
LastDefinition(file, name) ==
    LET at == PositionsOf(file, name)
    IN  Normalized(TheOne(file)[CHOOSE i \in at : \A j \in at : j <= i])
FirstPosition(file, name) ==
    LET at == PositionsOf(file, name)
    IN  CHOOSE i \in at : \A j \in at : i <= j

\* C22: after loading the default catalog and then the custom overlay, the
\* merged list has at most one pattern per lowercased name; a name present
\* in both keeps only the custom definition, at the default's position;
\* names present in only one source are kept.
C22_OverlayMerge ==
    tpc = "loaded" =>
        LET inDefault == NamesOf(defaultFile)
            inCustom  == NamesOf(customFile)
            n         == Len(patterns)
        IN  /\ \A i, j \in 1..n :
                  patterns[i].name = patterns[j].name => i = j
            /\ {patterns[i].name : i \in 1..n} = inDefault \cup inCustom
            /\ \A i \in 1..n :
                  patterns[i] =
                     IF patterns[i].name \in inCustom
                        THEN LastDefinition(customFile, patterns[i].name)
                        ELSE LastDefinition(defaultFile, patterns[i].name)
            /\ \A i, j \in 1..n :
                  (i < j /\ patterns[j].name \in inDefault) =>
                      /\ patterns[i].name \in inDefault
                      /\ FirstPosition(defaultFile, patterns[i].name)
                            < FirstPosition(defaultFile, patterns[j].name)

\* Both files define cokeon; the custom definition (name trigger) stands
\* first, where the default had it, before the default's tag.
C22_Witness ==
    /\ tpc = "loaded"
    /\ "cokeon" \in NamesOf(defaultFile) \cap NamesOf(customFile)
    /\ "tag" \in NamesOf(defaultFile) \ NamesOf(customFile)
    /\ Len(patterns) = 2
    /\ patterns[1].name = "cokeon" /\ patterns[1].nameB64
    /\ LastDefinition(defaultFile, "cokeon").mfLength = 5
    /\ patterns[2].name = "tag"

\* The required service UUID of p is among the advertised ones, without
\* regard to case.
Advertised(p, obs) ==
    \E u \in obs.uuids : UpperTrim(u) # "" /\ UpperTrim(u) = UpperTrim(p.require)

Triggered(p, obs) ==
    IBeaconMatches(p, obs) \/ ManufacturerMatches(p, obs)
       \/ NameMatches(p, obs)

\* C21: classify returns at most one name: the lowercased name of the
\* first pattern, in catalog order, that has a name, whose
\* require_service_uuid (if set) is advertised and of which a trigger
\* matches, or the empty name when there is none.
C21_FirstMatchingPattern ==
    (tpc = "loaded" /\ detected # "none") =>
        LET matching ==
                {i \in 1..Len(patterns) :
                    /\ patterns[i].name # ""
                    /\ patterns[i].require # ""
                          => Advertised(patterns[i], observed)
                    /\ Triggered(patterns[i], observed)}
        IN  /\ matching = {} => detected = ""
            /\ matching # {} =>
                  \E i \in matching :
                      /\ \A j \in matching : i <= j
                      /\ detected = patterns[i].name
                      /\ detected = LowerTrim(detected)
                      /\ detected # ""

\* The first pattern's trigger matches but its required UUID is not
\* advertised; the second pattern is returned.
C21_Witness ==
    /\ tpc = "loaded" /\ detected # "none"
    /\ Len(patterns) = 2
    /\ patterns[1].require # ""
    /\ ~Advertised(patterns[1], observed)
    /\ Triggered(patterns[1], observed)
    /\ detected = patterns[2].name
    /\ detected # patterns[1].name


(***************************************************************************)
(* SpecLock: the goroutines that call the one Store (discovery loops and   *)
(* connect workers), each store method as the sequence of its statements   *)
(* on one device row: Lock, the SELECT, the INSERT or UPDATE, the deferred *)
(* Unlock.                                                                 *)
(***************************************************************************)
MaxStoreCalls == 2

Callers == {"loop0", "loop1", "worker0"}
StoreMethods ==
    {"SaveDevice", "InsertAdvertisement", "RecordDeviceGPSHistoryIfChanged"}
HistTexts == {"A", "B"}

\* cop of a caller outside the store.
NoCall == [method |-> "", text |-> ""]

\* The GPS texts a method is called with (only the history reads one).
TextsOf(method) ==
    IF method = "RecordDeviceGPSHistoryIfChanged" THEN HistTexts ELSE {""}

\* The methods a caller uses: a connect worker only saves the device.
MethodsOf(c) == IF c = "worker0" THEN {"SaveDevice"} ELSE StoreMethods

LockUnchangedOthers ==
    UNCHANGED <<loopVars, workerVars, storeVars, jobVars, supVars,
                splitVars, dbVars, writeVars, gpsVars, typeVars, moreVars>>

MutexFree_Always == TRUE

\* sync.Mutex: Lock returns when no goroutine holds the mutex.
MutexFree == mu = {}

\* First statement after the Lock.
FirstPosition_Of(method) ==
    CASE method = "SaveDevice" -> "select"
      [] method = "InsertAdvertisement" -> "lookup"
      [] OTHER -> "check"

\* A goroutine enters a store method (the arguments are normalised
\* before the Lock).
StoreCall(c, method, text) ==
    /\ cpc[c] = "idle"
    /\ ccalls[c] < MaxStoreCalls
    /\ cop' = [cop EXCEPT ![c] = [method |-> method, text |-> text]]
    /\ cpc' = [cpc EXCEPT ![c] = "lock"]
    /\ UNCHANGED <<mu, cseen, ccalls, devRow, advRows, histRows, histCache,
                   rowWrites>>
    /\ LockUnchangedOthers

\* s.mu.Lock()
StoreLock(c) ==
    /\ cpc[c] = "lock"
    /\ MutexFree
    /\ mu' = {c}
    /\ cpc' = [cpc EXCEPT ![c] = FirstPosition_Of(cop[c].method)]
    /\ UNCHANGED <<cop, cseen, ccalls, devRow, advRows, histRows, histCache,
                   rowWrites>>
    /\ LockUnchangedOthers

\* SaveDevice: SELECT ... detection_count, last_count_update ...
SaveSelect(c) ==
    /\ cpc[c] = "select"
    /\ cseen' = [cseen EXCEPT ![c] = devRow]
    /\ cpc' = [cpc EXCEPT ![c] = "write"]
    /\ UNCHANGED <<mu, cop, ccalls, devRow, advRows, histRows, histCache,
                   rowWrites>>
    /\ LockUnchangedOthers

\* SaveDevice: the UPDATE with the count computed from the SELECT (here a
\* save that counts), or the INSERT when the SELECT found no row.
SaveWrite(c, ok) ==
    /\ cpc[c] = "write"
    /\ IF ok
          THEN /\ devRow' = cseen[c] + 1
               /\ rowWrites' = rowWrites + 1
          ELSE UNCHANGED <<devRow, rowWrites>>
    /\ cpc' = [cpc EXCEPT ![c] = "unlock"]
    /\ UNCHANGED <<mu, cop, cseen, ccalls, advRows, histRows, histCache>>
    /\ LockUnchangedOthers

\* InsertAdvertisement: SELECT id FROM devices WHERE mac = ?
AdvLookup(c) ==
    /\ cpc[c] = "lookup"
    /\ cseen' = [cseen EXCEPT ![c] = devRow]
    /\ cpc' = [cpc EXCEPT ![c] = IF devRow = 0 THEN "stub" ELSE "insert"]
    /\ UNCHANGED <<mu, cop, ccalls, devRow, advRows, histRows, histCache,
                   rowWrites>>
    /\ LockUnchangedOthers

\* InsertAdvertisement: the minimal device row, then the second SELECT.
AdvStub(c, ok) ==
    /\ cpc[c] = "stub"
    /\ IF ok
          THEN /\ devRow' = cseen[c] + 1
               /\ rowWrites' = rowWrites + 1
               /\ cpc' = [cpc EXCEPT ![c] = "insert"]
          ELSE /\ UNCHANGED <<devRow, rowWrites>>
               /\ cpc' = [cpc EXCEPT ![c] = "unlock"]
    /\ UNCHANGED <<mu, cop, cseen, ccalls, advRows, histRows, histCache>>
    /\ LockUnchangedOthers

\* InsertAdvertisement: INSERT INTO advertisements
AdvInsert(c, ok) ==
    /\ cpc[c] = "insert"
    /\ advRows' = IF ok THEN advRows + 1 ELSE advRows
    /\ cpc' = [cpc EXCEPT ![c] = "unlock"]
    /\ UNCHANGED <<mu, cop, cseen, ccalls, devRow, histRows, histCache,
                   rowWrites>>
    /\ LockUnchangedOthers

\* RecordDeviceGPSHistoryIfChanged: the test on the cache; recent is
\* time.Since(lastAt) < minInterval for an entry that exists.
HistCheck(c, recent) ==
    /\ cpc[c] = "check"
    /\ cseen' = [cseen EXCEPT ![c] = histRows]
    /\ cpc' = [cpc EXCEPT
                 ![c] = IF histCache = {cop[c].text} /\ recent
                           THEN "unlock" ELSE "append"]
    /\ UNCHANGED <<mu, cop, ccalls, devRow, advRows, histRows, histCache,
                   rowWrites>>
    /\ LockUnchangedOthers

\* RecordDeviceGPSHistoryIfChanged: the INSERT, then the cache.
HistAppend(c, ok) ==
    /\ cpc[c] = "append"
    /\ IF ok
          THEN /\ histRows' = histRows + 1
               /\ histCache' = {cop[c].text}
          ELSE UNCHANGED <<histRows, histCache>>
    /\ cpc' = [cpc EXCEPT ![c] = "unlock"]
    /\ UNCHANGED <<mu, cop, cseen, ccalls, devRow, advRows, rowWrites>>
    /\ LockUnchangedOthers

\* defer s.mu.Unlock(), and the return: the method's locals are gone.
StoreUnlock(c) ==
    /\ cpc[c] = "unlock"
    /\ mu' = mu \ {c}
    /\ cpc' = [cpc EXCEPT ![c] = "idle"]
    /\ ccalls' = [ccalls EXCEPT ![c] = @ + 1]
    /\ cop' = [cop EXCEPT ![c] = NoCall]
    /\ cseen' = [cseen EXCEPT ![c] = 0]
    /\ UNCHANGED <<devRow, advRows, histRows, histCache, rowWrites>>
    /\ LockUnchangedOthers

\* Open: one Store, nothing locked, no row.
InitLock ==
    /\ mu = {}
    /\ cpc = [c \in Callers |-> "idle"]
    /\ cop = [c \in Callers |-> NoCall]
    /\ cseen = [c \in Callers |-> 0]
    /\ ccalls = [c \in Callers |-> 0]
    /\ devRow = 0 /\ advRows = 0 /\ histRows = 0 /\ histCache = {}
    /\ rowWrites = 0
    /\ LoopIdle /\ SupIdle /\ SplitIdle /\ DbIdle /\ WriteIdle /\ GpsIdle
    /\ TypeIdle /\ MoreIdle

NextLock ==
    \/ \E c \in Callers : \E method \in MethodsOf(c) :
          \E text \in TextsOf(method) : StoreCall(c, method, text)
    \/ \E c \in Callers : StoreLock(c)
    \/ \E c \in Callers : SaveSelect(c)
    \/ \E c \in Callers, ok \in BOOLEAN : SaveWrite(c, ok)
    \/ \E c \in Callers : AdvLookup(c)
    \/ \E c \in Callers, ok \in BOOLEAN : AdvStub(c, ok)
    \/ \E c \in Callers, ok \in BOOLEAN : AdvInsert(c, ok)
    \/ \E c \in Callers, recent \in BOOLEAN : HistCheck(c, recent)
    \/ \E c \in Callers, ok \in BOOLEAN : HistAppend(c, ok)
    \/ \E c \in Callers : StoreUnlock(c)

SpecLock == InitLock /\ [][NextLock]_vars

\* The caller is between the Lock and the Unlock of a store method.
InMethod(c) == cpc[c] \notin {"idle", "lock"}

\* C23: no two store operations execute concurrently: at most one caller
\* is inside a store method; the value a method read is still the stored
\* one when it writes (the counters of save_device, the lookup of
\* insert_advertisement, the history rows at the cache check); every
\* successful write of the device row is in the row, none is lost.
C23_StoreOperationsSerialized ==
    /\ \A c, d \in Callers : (InMethod(c) /\ InMethod(d)) => c = d
    /\ \A c \in Callers : InMethod(c) => mu = {c}
    /\ \A c \in Callers : cpc[c] \in {"write", "stub"} => cseen[c] = devRow
    /\ \A c \in Callers : cpc[c] = "insert" => devRow > 0
    /\ \A c \in Callers : cpc[c] = "append" => cseen[c] = histRows
    /\ devRow = rowWrites

\* A discovery loop has read the counters of the row inside SaveDevice
\* while a worker and the other loop wait for the mutex in their own calls.
C23_Witness ==
    /\ cpc["loop0"] = "write" /\ devRow > 0
    /\ cpc["worker0"] = "lock" /\ cop["worker0"].method = "SaveDevice"
    /\ cpc["loop1"] = "lock"
    /\ cop["loop1"].method = "InsertAdvertisement"


(***************************************************************************)
(* Further properties of the discovery loop and its workers (Spec).        *)
(***************************************************************************)
\* Connect jobs of m that are queued or in a worker's hands.
JobsOf(m) ==
    Cardinality({i \in 1..Len(queue) : queue[i] = m})
       + Cardinality({w \in Workers :
                         /\ wmac[w] = m
                         /\ wpc[w] \in {"connect", "resolve", "dump",
                                        "persist", "publish"}})

\* C27: for every MAC at most one connect job is queued or executing, and
\* in_flight(mac) is true exactly when a job for the MAC is in the queue,
\* is being executed by a worker, or has completed with its completion not
\* yet drained.
C27_InFlightExactlyWhileJob ==
    \A m \in MACs :
       /\ JobsOf(m) <= 1
       /\ m \in inFlight
             <=> (InSeq(m, queue) \/ JobRunning(m) \/ InSeq(m, doneCh))

\* The step ends the job in worker w's hands with an error.
JobFails(w) == werr[w] = "none" /\ werr'[w] \notin {"none", "nil"}

\* C28: a connect job persists a GATT listing only after, in this order,
\* Connect succeeded, ServicesResolved was observed true and the dump
\* returned at least one service; a job that fails or is cancelled at an
\* earlier step writes no listing, so has_gatt_services(mac) becomes true
\* only through a fully successful job.
C28_ListingOnlyAfterFullJob ==
    /\ [][\A m \in MACs :
             (m \notin gattServices /\ m \in gattServices') =>
                 \E w \in Workers :
                    /\ wmac[w] = m
                    /\ wtrail[w] = <<"connected", "resolved", "services">>
                    /\ werr'[w] = "nil"
                    /\ lastJob'[m] = "nil"]_vars
    /\ [][\A w \in Workers :
             JobFails(w) => gattServices' = gattServices]_vars
    /\ [](\A w \in Workers :
             wpc[w] = "persist" =>
                 wtrail[w] = <<"connected", "resolved", "services">>)

\* AA's job went through the three steps and its listing is stored, while
\* BB's job failed and left none.
C28_Witness ==
    /\ "AA" \in gattServices /\ lastJob["AA"] = "nil"
    /\ "BB" \notin gattServices /\ lastJob["BB"] = "error"
    /\ \E ok \in BOOLEAN : HasGattServices("AA", ok)

\* The positions of the loop from its first wait on the ticker.
Ticking == {"wait", "drain", "snap", "iter", "sched"}

\* C40: once a run waits on its ticker it ends only by a return on a done
\* context; every outcome of StartDiscovery leads to the ticker; a failed
\* or empty snapshot goes back to the ticker and leaves seenCount,
\* lastConnAttempt, inFlight and the queue as they were, and the drain
\* before it only removes MACs from inFlight (the workers may take jobs
\* from the queue meanwhile).
C40_LoopEndsOnlyOnCancel ==
    [][/\ (lpc \in Ticking /\ lpc' \notin Ticking)
             => (lpc' = "exited" /\ ctxDone)
       /\ (lpc = "start" /\ lpc' # "start") => lpc' = "wait"
       /\ (lpc = "snap" /\ lpc' = "wait")
             => UNCHANGED <<seenCount, lastConnAttempt, inFlight, queue,
                            now, todo>>
       /\ lpc = "drain"
             => /\ inFlight' \subseteq inFlight
                /\ UNCHANGED <<seenCount, lastConnAttempt>>]_vars

\* StartDiscovery failed with an error other than InProgress, AA was
\* sighted at the first tick, the snapshot of the second tick failed or
\* was empty (now is still the first tick's), and the loop waits on its
\* ticker with its context alive.
C40_Witness ==
    /\ startErr = "other"
    /\ lpc = "wait" /\ ~ctxDone
    /\ ticks = 2 /\ now < clock /\ now > 0
    /\ "AA" \in DOMAIN seenCount

(***************************************************************************)
(* LiveSup: the supervisor under the scheduler's fairness.  A goroutine    *)
(* that can take a step takes it; a select whose ctx.Done() case stays     *)
(* ready takes that case; the monitor's 2 s ticker fires while the monitor *)
(* lives.  An object-manager call that is repeated for ever on a path that *)
(* exists does not fail for ever (strong fairness of the probes).  Plug,   *)
(* Unplug and RootCancel are the environment's and carry no fairness.      *)
(***************************************************************************)
\* The monitor's tick finds the path missing, with a call that worked.
MonitorSeesAbsent == MonitorTick /\ adapters[adapterID] = ""

\* The discovery loop returns because its context is done.
LoopObservesCancel ==
    DiscoveryLoopReturns /\ WorkerCtxIsDone

\* The probes with a call that worked on a path that exists.
ProbeSucceeds == SupProbe /\ present'
FindSucceeds == SupFind /\ adapterID' # adapterID
RecheckSucceeds == SupRecheck /\ present'

SupFairness ==
    /\ WF_vars(SupInit) /\ WF_vars(SupTop) /\ WF_vars(SupProbe)
    /\ WF_vars(SupFind) /\ WF_vars(SupRecheck) /\ WF_vars(SupTransition)
    /\ WF_vars(SupAbsentWait) /\ WF_vars(SupPower) /\ WF_vars(SupLaunch)
    /\ WF_vars(SupAfterRun) /\ WF_vars(SupJoinMonitor)
    /\ WF_vars(SupRestartWait)
    /\ WF_vars(MonitorSeesAbsent) /\ WF_vars(MonitorCtxDone)
    /\ WF_vars(LoopObservesCancel)
    /\ SF_vars(ProbeSucceeds) /\ SF_vars(FindSucceeds)
    /\ SF_vars(RecheckSucceeds)

LiveSup == SpecSup /\ SupFairness

\* The path the running loop was started on is missing.
RunningOnAbsent == dpc = "running" /\ adapters[runID] = ""

\* The supervisor's adapter, or a controller with the remembered address,
\* is in the object manager.
AdapterAvailable ==
    \/ adapters[adapterID] # ""
    \/ knownAddr # "" /\ \E id \in AdapterIDs : adapters[id] = knownAddr

\* The call of runBlueZDiscoveryLoop.
LaunchStep == dpc # "running" /\ dpc' = "running"

Canceled == "context canceled"

\* <-ctx.Done()
MultiCtxDone ==
    /\ multi = "ctxwait"
    /\ rootDone
    /\ multi' = "unwind"
    /\ UNCHANGED multiErr
    /\ UNCHANGED <<loopVars, workerVars, storeVars, jobVars, supVars,
                   splitVars, dbVars, writeVars, gpsVars, typeVars,
                   lockVars, pairVars, dumpVars, runVars>>

\* select { case <-ch: case <-time.After(2 * time.Second): }; return
\* ctx.Err().  ch is closed once wg.Wait() returns, which is once the
\* supervisors have returned.
MultiReturn ==
    /\ multi = "unwind"
    /\ \E timeout \in BOOLEAN : timeout \/ spc = "exited"
    /\ multi' = "returned"
    /\ multiErr' = IF rootDone THEN Canceled ELSE "nil"
    /\ UNCHANGED <<loopVars, workerVars, storeVars, jobVars, supVars,
                   splitVars, dbVars, writeVars, gpsVars, typeVars,
                   lockVars, pairVars, dumpVars, runVars>>

InitStop == InitSup \/ Init

NextStop ==
    \/ spc # "off" /\ NextSup
    \/ MultiCtxDone
    \/ MultiReturn
    \/ spc = "off" /\ Next

\* The steps the supervisor takes by itself, those of the caller, those of
\* the discovery loop other than the ticker's, and those of a worker.
SupSteps ==
    \/ SupInit \/ SupTop \/ SupProbe \/ SupFind \/ SupRecheck
    \/ SupTransition \/ SupAbsentWait \/ SupPower \/ SupLaunch
    \/ SupAfterRun \/ SupJoinMonitor \/ SupRestartWait

MultiSteps == MultiCtxDone \/ MultiReturn

LoopSteps ==
    \/ LoopConnect \/ LoopStartDiscovery \/ LoopCtxDone \/ LoopDrain
    \/ LoopSnapshot \/ LoopEntryCtxDone \/ LoopSchedule
    \/ \E m \in MACs, d \in BDs : LoopObserve(m, d)

WorkerSteps(w) ==
    \/ WorkerTake(w) \/ WorkerCtxDone(w) \/ JobConnect(w) \/ JobResolve(w)
    \/ JobDump(w) \/ JobPersist(w) \/ WorkerPublish(w)

StopFairness ==
    /\ WF_vars(SupSteps) /\ WF_vars(MonitorCtxDone)
    /\ WF_vars(LoopObservesCancel) /\ WF_vars(MultiSteps)
    /\ WF_vars(LoopSteps)
    /\ \A w \in Workers : WF_vars(WorkerSteps(w))

LiveStop == InitStop /\ [][NextStop]_vars /\ StopFairness

\* The supervisor has returned, and with it its monitor and its call of
\* the discovery loop.
SupervisorStopped == spc = "exited" /\ mpc = "off" /\ dpc = "off"

\* The discovery loop has returned and every worker has.
LoopStopped ==
    /\ lpc \in {"exited", "nobus"}
    /\ \A w \in Workers : wpc[w] = "exited" /\ wmac[w] = NoMAC

\* StartContinuousScanAndConnectMulti has returned the cancellation error.
MultiReturned == multi = "returned" /\ multiErr = Canceled

\* The context this side of the shutdown watches is done.
Cancelled == IF spc = "off" THEN ctxDone ELSE rootDone

\* Every goroutine of this side has returned.
AllStopped ==
    IF spc = "off" THEN LoopStopped ELSE SupervisorStopped /\ MultiReturned

Supervisors == {0, 1}
AdapterOf(i) == IF i = 0 THEN "hci0" ELSE "hci1"

PairUnchangedOthers ==
    /\ UNCHANGED <<spc, adapterID, knownAddr, wasPresent, present, backoff,
                   probedID, poweredID, runID, connectedLog, lastWait, mpc,
                   wctxCancelled, dpc, rootDone>>
    /\ UNCHANGED <<loopVars, workerVars, storeVars, jobVars, splitVars,
                   dbVars, writeVars, gpsVars, typeVars, lockVars, stopVars,
                   dumpVars, runVars>>

\* The supervisor's locals at its start.
NewSupervisor(i) ==
    [pc |-> "init", adapterID |-> AdapterOf(i), knownAddr |-> "",
     wasPresent |-> FALSE, present |-> FALSE, cancelled |-> FALSE,
     mon |-> "off", loop |-> "off", runID |-> ""]

\* One step of supervisor i, of its monitor or of its loop: r is what its
\* locals become.
PairStep(i, r) ==
    /\ sup' = [sup EXCEPT ![i] = r]
    /\ UNCHANGED adapters
    /\ PairUnchangedOthers

\* The child context of supervisor i is done.
PairCtxDone(i) == sup[i].cancelled \/ rootDone

\* dbus.SystemBus() (an error returns), then the first address capture.
PairInit(i) ==
    /\ sup[i].pc = "init"
    /\ \E bus \in BOOLEAN, ok \in BOOLEAN :
          PairStep(i,
             IF bus
                THEN [sup[i] EXCEPT
                        !.knownAddr = CaptureAddress(@,
                            bluezAdapterAddress(sup[i].adapterID, ok)),
                        !.pc = "top"]
                ELSE [sup[i] EXCEPT !.pc = "exited"])

\* select { case <-ctx.Done(): return; default: }
PairTop(i) ==
    /\ sup[i].pc = "top"
    /\ PairStep(i, [sup[i] EXCEPT
                      !.pc = IF rootDone THEN "exited" ELSE "probe"])

\* present := bluezAdapterExists(ctx, conn, adapterID)
PairProbe(i) ==
    /\ sup[i].pc = "probe"
    /\ \E ok \in BOOLEAN :
          LET p == bluezAdapterExists(sup[i].adapterID, ok) IN
             PairStep(i, [sup[i] EXCEPT
                            !.present = p,
                            !.pc = IF ~p /\ sup[i].knownAddr # ""
                                      THEN "find" ELSE "trans"])

\* bluezFindAdapterByAddress and the rebind.
PairFind(i) ==
    /\ sup[i].pc = "find"
    /\ \E ok \in BOOLEAN :
       \E newID \in bluezFindAdapterByAddress(sup[i].knownAddr, ok) :
          PairStep(i,
             IF newID # "" /\ newID # sup[i].adapterID
                THEN [sup[i] EXCEPT !.adapterID = newID, !.pc = "recheck"]
                ELSE [sup[i] EXCEPT !.pc = "trans"])

\* present = bluezAdapterExists(ctx, conn, adapterID) under the new id.
PairRecheck(i) ==
    /\ sup[i].pc = "recheck"
    /\ \E ok \in BOOLEAN :
          PairStep(i, [sup[i] EXCEPT
                         !.present = bluezAdapterExists(sup[i].adapterID, ok),
                         !.pc = "trans"])

\* if present != wasPresent { ... wasPresent = present }
PairTransition(i) ==
    /\ sup[i].pc = "trans"
    /\ \E ok \in BOOLEAN :
          LET r == sup[i] IN
             PairStep(i, [r EXCEPT
                 !.knownAddr =
                     IF r.present # r.wasPresent /\ r.present
                        THEN CaptureAddress(@,
                                 bluezAdapterAddress(r.adapterID, ok))
                        ELSE @,
                 !.wasPresent = r.present,
                 !.pc = IF r.present THEN "launch" ELSE "absentwait"])

\* if !present { select { ctx.Done: return; time.After(2 s): }; continue }
PairAbsentWait(i) ==
    /\ sup[i].pc = "absentwait"
    /\ PairStep(i, [sup[i] EXCEPT
                      !.pc = IF rootDone THEN "exited" ELSE "top"])

\* bluezEnsureAdapterPowered, workerCtx, the monitor goroutine, and the
\* call of runBlueZDiscoveryLoop(workerCtx, adapterID, ...).
PairLaunch(i) ==
    /\ sup[i].pc = "launch"
    /\ PairStep(i, [sup[i] EXCEPT
                      !.cancelled = FALSE, !.mon = "ticking",
                      !.loop = "running", !.runID = sup[i].adapterID,
                      !.pc = "running"])

\* Monitor, case <-t.C: the adapter is gone (or the call failed): cancel.
PairMonitorTick(i) ==
    /\ sup[i].mon = "ticking"
    /\ \E ok \in BOOLEAN : ~bluezAdapterExists(sup[i].adapterID, ok)
    /\ PairStep(i, [sup[i] EXCEPT !.cancelled = TRUE, !.mon = "done"])

\* Monitor, case <-workerCtx.Done(): return.
PairMonitorCtxDone(i) ==
    /\ sup[i].mon = "ticking"
    /\ PairCtxDone(i)
    /\ PairStep(i, [sup[i] EXCEPT !.mon = "done"])

\* runBlueZDiscoveryLoop returns: at once when dbus.SystemBus() fails,
\* otherwise only once its context is done.
PairLoopReturns(i) ==
    /\ sup[i].loop = "running"
    /\ \E busFailed \in BOOLEAN : busFailed \/ PairCtxDone(i)
    /\ PairStep(i, [sup[i] EXCEPT !.loop = "returned"])

\* After the run: cancel()
PairAfterRun(i) ==
    /\ sup[i].pc = "running"
    /\ sup[i].loop = "returned"
    /\ PairStep(i, [sup[i] EXCEPT
                      !.cancelled = TRUE, !.loop = "off", !.runID = "",
                      !.pc = "join"])

\* <-monDone; if ctx.Err() != nil { return }
PairJoinMonitor(i) ==
    /\ sup[i].pc = "join"
    /\ sup[i].mon = "done"
    /\ PairStep(i, [sup[i] EXCEPT
                      !.mon = "off",
                      !.pc = IF rootDone THEN "exited" ELSE "restartwait"])

\* select { ctx.Done: return; time.After(backoff): }
PairRestartWait(i) ==
    /\ sup[i].pc = "restartwait"
    /\ PairStep(i, [sup[i] EXCEPT
                      !.pc = IF rootDone THEN "exited" ELSE "top"])

\* The environment's steps are those of SpecSup; they leave sup alone.
PairEnvironment ==
    \/ RootCancel
    \/ \E id \in AdapterIDs : Unplug(id)
    \/ \E id \in AdapterIDs, a \in ControllerAddrs : Plug(id, a)

InitPair ==
    /\ sup = [i \in Supervisors |-> NewSupervisor(i)]
    /\ adapters \in AdapterStates
    /\ spc = "off" /\ adapterID = "" /\ knownAddr = ""
    /\ wasPresent = FALSE /\ present = FALSE /\ backoff = 1
    /\ probedID = "" /\ poweredID = "" /\ runID = ""
    /\ connectedLog = FALSE /\ lastWait = 0 /\ mpc = "off"
    /\ wctxCancelled = FALSE /\ dpc = "off" /\ rootDone = FALSE
    /\ LoopIdle /\ SplitIdle /\ DbIdle /\ WriteIdle /\ GpsIdle
    /\ TypeIdle /\ LockIdle /\ StopIdle /\ DumpIdle /\ RunIdle

NextPair ==
    \/ \E i \in Supervisors : PairInit(i)
    \/ \E i \in Supervisors : PairTop(i)
    \/ \E i \in Supervisors : PairProbe(i)
    \/ \E i \in Supervisors : PairFind(i)
    \/ \E i \in Supervisors : PairRecheck(i)
    \/ \E i \in Supervisors : PairTransition(i)
    \/ \E i \in Supervisors : PairAbsentWait(i)
    \/ \E i \in Supervisors : PairLaunch(i)
    \/ \E i \in Supervisors : PairMonitorTick(i)
    \/ \E i \in Supervisors : PairMonitorCtxDone(i)
    \/ \E i \in Supervisors : PairLoopReturns(i)
    \/ \E i \in Supervisors : PairAfterRun(i)
    \/ \E i \in Supervisors : PairJoinMonitor(i)
    \/ \E i \in Supervisors : PairRestartWait(i)
    \/ PairEnvironment

SpecPair == InitPair /\ [][NextPair]_vars

\* The discovery loops running on adapter id.
LoopsOn(id) ==
    {i \in Supervisors : sup[i].loop = "running" /\ sup[i].runID = id}

\* C26: at any time at most one discovery loop is running for an adapter
\* id, and a running loop has exactly its own monitor beside it.
C26_OneLoopPerAdapter ==
    /\ \A id \in AdapterIDs : Cardinality(LoopsOn(id)) <= 1
    /\ \A i \in Supervisors :
          sup[i].loop = "running" => sup[i].mon \in {"ticking", "done"}

(***************************************************************************)
(* SpecDump: the characteristics of one DumpAndStoreGATT call, in the      *)
(* order the nested loops over services and sorted characteristics visit   *)
(* them.  readCount is one counter for the whole dump.  Descriptors are    *)
(* read without a budget and are left out.                                 *)
(***************************************************************************)
\* Characteristics of the dumped device.
MaxChars == 42

\* const maxCharsToRead = 40
MaxCharsToRead == 40

\* Flags properties as BlueZ and odd peripherals report them.
FlagSets ==
    {{}, {"read"}, {"write", "notify"}, {"encrypt-read"}, {" READ", "write"}}

\* strings.ToLower(strings.TrimSpace(f)) on the flags above.
FlagLowerTrim(f) ==
    CASE f = " READ" -> "read"
      [] OTHER -> f

\* hasFlag(flags, want)
hasFlag(flags, want) ==
    want # "" /\ \E f \in flags : FlagLowerTrim(f) = want

\* Mutant: the budget test lets the count reach 41.
WithinBudget_Inclusive(n) == n <= MaxCharsToRead

\* readCount < maxCharsToRead
WithinBudget(n) == n < MaxCharsToRead

DumpUnchangedOthers ==
    UNCHANGED <<loopVars, workerVars, storeVars, jobVars, supVars,
                splitVars, dbVars, writeVars, gpsVars, typeVars, lockVars,
                stopVars, pairVars, runVars>>

\* One characteristic: the listing line of its value, the read, and what
\* UpsertGattCharacteristic is given (ValueHex and ReadError, nil or not).
DumpChar(flags, ok) ==
    /\ upc = "chars"
    /\ cdone < MaxChars
    /\ cdone' = cdone + 1
    /\ IF WithinBudget(readCount) /\ hasFlag(flags, "read")
          THEN /\ readCount' = readCount + 1
               /\ reads' = reads + 1
               /\ lastChar' =
                     [flags |-> flags, read |-> TRUE,
                      line |-> IF ok THEN "Value(hex)" ELSE "Read error",
                      valHex |-> ok, readErr |-> ~ok]
          ELSE /\ UNCHANGED <<readCount, reads>>
               /\ lastChar' =
                     [flags |-> flags, read |-> FALSE,
                      line |-> IF ~WithinBudget(readCount)
                                  /\ hasFlag(flags, "read")
                                  THEN "(skipped; read limit reached)"
                                  ELSE "",
                      valHex |-> FALSE, readErr |-> FALSE]
    /\ UNCHANGED upc
    /\ DumpUnchangedOthers

\* The last service has no further characteristic.
DumpEnd ==
    /\ upc = "chars"
    /\ upc' = "done"
    /\ UNCHANGED <<cdone, readCount, reads, lastChar>>
    /\ DumpUnchangedOthers

InitDump ==
    /\ upc = "chars" /\ cdone = 0 /\ readCount = 0 /\ reads = 0
    /\ lastChar = <<>>
    /\ LoopIdle /\ SupIdle /\ SplitIdle /\ DbIdle /\ WriteIdle /\ GpsIdle
    /\ TypeIdle /\ LockIdle /\ StopIdle /\ PairIdle /\ RunIdle

NextDump ==
    \/ \E flags \in FlagSets, ok \in BOOLEAN : DumpChar(flags, ok)
    \/ DumpEnd

SpecDump == InitDump /\ [][NextDump]_vars

\* A characteristic is visited.
CharStep == cdone' = cdone + 1

\* The characteristic carries the read flag.
Readable(c) == \E f \in c.flags : f \in {"read", " READ"}

\* C25: one dump makes at most 40 characteristic reads; a readable
\* characteristic met when 40 reads were made gets the line
\* "(skipped; read limit reached)" and no read, one met earlier is read;
\* a characteristic without the read flag is not read, gets no value line
\* and leaves the budget as it is.
C25_ReadBudget ==
    /\ [](reads <= MaxCharsToRead)
    /\ [][CharStep =>
            LET c == lastChar' IN
               /\ Readable(c) /\ reads >= MaxCharsToRead
                     => /\ c.line = "(skipped; read limit reached)"
                        /\ ~c.read /\ reads' = reads
               /\ Readable(c) /\ reads < MaxCharsToRead
                     => c.read /\ reads' = reads + 1
               /\ ~Readable(c)
                     => /\ ~c.read /\ c.line = "" /\ reads' = reads
                        /\ readCount' = readCount]_vars

\* The budget is used up, by readable characteristics among others: the
\* last one was readable and skipped.
C25_Witness ==
    /\ reads = MaxCharsToRead
    /\ cdone = MaxChars
    /\ lastChar.line = "(skipped; read limit reached)"


(***************************************************************************)
(* SpecRestart: runManagedAdapterLoop starting runBlueZDiscoveryLoop again *)
(* after a run has returned.  Every run has its own workerCtx, queue,      *)
(* doneCh, maps and workers; the store is the same.  A snapshot holds at   *)
(* most one device, an LE device with RSSI above the threshold.            *)
(***************************************************************************)
MaxRuns == 2
MaxRunTicks == 4

\* maxConnect, the number of workers a run starts
MaxConnect == Cardinality(Workers)

RunUnchangedOthers ==
    UNCHANGED <<loopVars, workerVars, storeVars, jobVars, supVars,
                splitVars, dbVars, writeVars, gpsVars, typeVars, lockVars,
                stopVars, pairVars, dumpVars>>

\* m[k] with Go's zero value for a missing key
SeenIn(r, m) ==
    IF m \in DOMAIN rseenCount[r] THEN rseenCount[r][m] ELSE 0

\* last, ok := lastConnAttempt[mac]; ok && now.Sub(last) < cfg.ConnectCooldown
RunInCooldown(r, m, t) ==
    /\ m \in DOMAIN rlastConnAttempt[r]
    /\ t - rlastConnAttempt[r][m] < ConnectCooldown

\* The MACs of a channel's content.
Content(q) == {q[i] : i \in 1..Len(q)}

\* The supervisor calls runBlueZDiscoveryLoop: the first time, or after the
\* previous run has returned, cancel(), <-monDone and the backoff wait.
\* The run makes its channels, starts its workers and makes its maps.
RunStart ==
    /\ runs < MaxRuns
    /\ runs > 0 => rlpc[runs] = "exited"
    /\ LET r == runs + 1 IN
          /\ runs' = r
          /\ rctxDone' = MapSet(rctxDone, r, FALSE)
          /\ rlpc' = MapSet(rlpc, r, "wait")
          /\ rqueue' = MapSet(rqueue, r, <<>>)
          /\ rdoneCh' = MapSet(rdoneCh, r, <<>>)
          /\ rinFlight' = MapSet(rinFlight, r, {})
          /\ rlastConnAttempt' = MapSet(rlastConnAttempt, r, <<>>)
          /\ rseenCount' = MapSet(rseenCount, r, <<>>)
          /\ rwpc' = MapSet(rwpc, r, [w \in Workers |-> "idle"])
          /\ rwmac' = MapSet(rwmac, r, [w \in Workers |-> NoMAC])
    /\ rclock' = IF runs = 0 THEN rclock ELSE rclock + BackoffStart
    /\ UNCHANGED <<rgatt, rticks, attemptedAt>>
    /\ RunUnchangedOthers

\* One iteration of the loop of run r: the ticker fires, the completions
\* are drained, and the snapshot's device goes through seenCount and the
\* gates of connect scheduling.  With a done context the snapshot call
\* fails and the iteration ends after the drain.
RunTick(r, snap, d, gattOk) ==
    /\ r \in 1..runs
    /\ rlpc[r] = "wait"
    /\ rticks < MaxRunTicks
    /\ rticks' = rticks + 1
    /\ rclock' = rclock + d
    /\ rdoneCh' = [rdoneCh EXCEPT ![r] = <<>>]
    /\ LET drained == rinFlight[r] \ Content(rdoneCh[r])
           tnow    == rclock'
       IN  IF rctxDone[r] \/ snap = {}
              THEN /\ rinFlight' = [rinFlight EXCEPT ![r] = drained]
                   /\ UNCHANGED <<rseenCount, rlastConnAttempt, rqueue,
                                  attemptedAt>>
              ELSE LET m    == TheOne(snap)
                       seen == Min(SeenIn(r, m) + 1, MinSightings)
                       open == /\ seen >= MinSightings
                               /\ ~(gattOk /\ m \in rgatt)
                               /\ m \notin drained
                               /\ ~RunInCooldown(r, m, tnow)
                       room == Len(rqueue[r]) < ConnectQueueSize
                   IN  /\ rseenCount' =
                             [rseenCount EXCEPT
                                ![r] = MapSet(rseenCount[r], m, seen)]
                       /\ rlastConnAttempt' =
                             IF open
                                THEN [rlastConnAttempt EXCEPT
                                        ![r] = MapSet(@, m, tnow)]
                                ELSE rlastConnAttempt
                       /\ rinFlight' =
                             [rinFlight EXCEPT
                                ![r] = IF open /\ room
                                          THEN drained \cup {m}
                                          ELSE drained]
                       /\ rqueue' =
                             IF open /\ room
                                THEN [rqueue EXCEPT ![r] = Append(@, m)]
                                ELSE rqueue
                       /\ attemptedAt' =
                             IF open /\ room
                                THEN MapSet(attemptedAt, m, tnow)
                                ELSE attemptedAt
    /\ UNCHANGED <<runs, rctxDone, rlpc, rwpc, rwmac, rgatt>>
    /\ RunUnchangedOthers

\* cancel() of workerCtx: the monitor found the adapter absent.
RunCancel(r) ==
    /\ r \in 1..runs
    /\ ~rctxDone[r]
    /\ rctxDone' = [rctxDone EXCEPT ![r] = TRUE]
    /\ UNCHANGED <<runs, rlpc, rqueue, rdoneCh, rinFlight, rlastConnAttempt,
                   rseenCount, rwpc, rwmac, rgatt, rclock, rticks,
                   attemptedAt>>
    /\ RunUnchangedOthers

\* case <-ctx.Done(): return ctx.Err().  The function returns without
\* waiting for its workers.
RunLoopReturn(r) ==
    /\ r \in 1..runs
    /\ rlpc[r] = "wait"
    /\ rctxDone[r]
    /\ rlpc' = [rlpc EXCEPT ![r] = "exited"]
    /\ UNCHANGED <<runs, rctxDone, rqueue, rdoneCh, rinFlight,
                   rlastConnAttempt, rseenCount, rwpc, rwmac, rgatt, rclock,
                   rticks, attemptedAt>>
    /\ RunUnchangedOthers

\* bluezConnectWorker, case mac := <-queue.  Go's select takes any ready
\* case: with a job in the queue this one may be taken although ctx is
\* done.
RunWorkerTake(r, w) ==
    /\ r \in 1..runs
    /\ rwpc[r][w] = "idle"
    /\ rqueue[r] # <<>>
    /\ rwpc' = [rwpc EXCEPT ![r][w] = "job"]
    /\ rwmac' = [rwmac EXCEPT ![r][w] = Head(rqueue[r])]
    /\ rqueue' = [rqueue EXCEPT ![r] = Tail(@)]
    /\ UNCHANGED <<runs, rctxDone, rlpc, rdoneCh, rinFlight,
                   rlastConnAttempt, rseenCount, rgatt, rclock, rticks,
                   attemptedAt>>
    /\ RunUnchangedOthers

\* bluezConnectWorker, case <-ctx.Done(): return
RunWorkerCtxDone(r, w) ==
    /\ r \in 1..runs
    /\ rwpc[r][w] = "idle"
    /\ rctxDone[r]
    /\ rwpc' = [rwpc EXCEPT ![r][w] = "exited"]
    /\ UNCHANGED <<runs, rctxDone, rlpc, rqueue, rdoneCh, rinFlight,
                   rlastConnAttempt, rseenCount, rwmac, rgatt, rclock,
                   rticks, attemptedAt>>
    /\ RunUnchangedOthers

\* ConnectAndDumpGATTBlueZ returns and the completion is published if
\* doneCh has room.  A listing is stored only by a job whose context
\* lived to its end.
RunJobEnd(r, w, ok) ==
    /\ r \in 1..runs
    /\ rwpc[r][w] = "job"
    /\ ok => ~rctxDone[r]
    /\ rgatt' = IF ok THEN rgatt \cup {rwmac[r][w]} ELSE rgatt
    /\ rdoneCh' =
          IF Len(rdoneCh[r]) < ConnectQueueSize
             THEN [rdoneCh EXCEPT ![r] = Append(@, rwmac[r][w])]
             ELSE rdoneCh
    /\ rwpc' = [rwpc EXCEPT ![r][w] = "idle"]
    /\ rwmac' = [rwmac EXCEPT ![r][w] = NoMAC]
    /\ UNCHANGED <<runs, rctxDone, rlpc, rqueue, rinFlight,
                   rlastConnAttempt, rseenCount, rclock, rticks,
                   attemptedAt>>
    /\ RunUnchangedOthers

InitRestart ==
    /\ RunIdle
    /\ LoopIdle /\ SupIdle /\ SplitIdle /\ DbIdle /\ WriteIdle /\ GpsIdle
    /\ TypeIdle /\ LockIdle /\ StopIdle /\ PairIdle /\ DumpIdle

\* The snapshots of a tick: failed or empty, or one device.
RunSnapshots == {{}} \cup {{m} : m \in MACs}

NextRestart ==
    \/ RunStart
    \/ \E r \in 1..MaxRuns, snap \in RunSnapshots, d \in TickSteps,
          gattOk \in BOOLEAN : RunTick(r, snap, d, gattOk)
    \/ \E r \in 1..MaxRuns : RunCancel(r)
    \/ \E r \in 1..MaxRuns : RunLoopReturn(r)
    \/ \E r \in 1..MaxRuns, w \in Workers : RunWorkerTake(r, w)
    \/ \E r \in 1..MaxRuns, w \in Workers : RunWorkerCtxDone(r, w)
    \/ \E r \in 1..MaxRuns, w \in Workers, ok \in BOOLEAN :
          RunJobEnd(r, w, ok)

SpecRestart == InitRestart /\ [][NextRestart]_vars

\* C38: for every MAC two connect attempts are at least 30 minutes apart
\* over all the runs of the discovery loop on the adapter, a restart by
\* the supervisor included.
C38_AttemptsApartAcrossRestarts ==
    [][\A m \in MACs :
          (/\ m \in DOMAIN attemptedAt
           /\ attemptedAt'[m] # attemptedAt[m])
             => attemptedAt'[m] - attemptedAt[m] >= ConnectCooldown]_vars

\* Connect jobs executing on the adapter, in the workers of all its runs.
Executing ==
    Cardinality({p \in (1..runs) \X Workers : rwpc[p[1]][p[2]] = "job"})

\* C39: the connect jobs executing for the adapter never exceed its worker
\* pool size, over all runs of the discovery loop, and no job is taken from
\* the queue of a run whose context is done.
C39_JobsWithinPoolAcrossRestarts ==
    /\ [](Executing <= MaxConnect)
    /\ [][\A r \in 1..runs :
             rctxDone[r] => rqueue'[r] = rqueue[r]]_vars
====
